---- MODULE Spec2Model ----
(***************************************************************************)
(* Model of the integrated overworld/level game                            *)
(* (src/smb3bygptandgeminiplusgrokv0.5.16.25.py, class IntegratedGame).    *)
(*                                                                         *)
(* Units.  Rectangle coordinates are integers (pixels), as pygame.Rect     *)
(* keeps them; a float assigned to a Rect attribute is truncated toward    *)
(* zero.  Velocities are floats in the source and are held here in         *)
(* hundredths of a pixel per tick (GRAVITY 0.55 -> 55).  dt, time_left and *)
(* the overworld input timer are held in milliseconds (dt = ms / 1000.0    *)
(* in the source).  An enemy's vel_x (-1, -1.5, ...) is held doubled.      *)
(***************************************************************************)
EXTENDS Integers, Sequences, FiniteSets, TLC

\* ------------------------------------------------------------------------
\* Program constants
\* ------------------------------------------------------------------------
W == 640
H == 400
FPS == 60
GRAVITY == 55
JUMP_VEL == -1000
TILE == 16
SCALE == 2
TerminalVel == 1500
PlayerSpeed == 300
EnemySpeed == 100
LevelTime == 300000
OwInputCooldown == 180
StompScore == 100
CoinScore == 50
TimeBonus == 10
StartLives == 3
NumWorldsInData == 9

\* ------------------------------------------------------------------------
\* Bounds of the exploration
\* ------------------------------------------------------------------------
\* the overworld map is cut to its first MaxWorlds worlds, each to its
\* first MaxNodes nodes
MaxWorlds == 1
MaxNodes == 2
\* ordinary frames explored after a level load
MaxLevelTicks == 42
\* stalled frames and Escape occur in a level only within this many
\* ordinary frames of its load
MaxEarlyTicks == 1
\* Escape skips the game-over screen only while lives > -MaxLivesDebt
MaxLivesDebt == 1
\* a level is entered from the overworld only while score <= MaxEntryScore
MaxEntryScore == 0
\* level ticks run from a drawn situation
MaxTicks == 2

\* frame lengths (ms) the clock may report: an ordinary 60 Hz frame, a slow
\* frame, a short stall, a long stall, and a stall longer than the level's
\* time limit
FrameMs == 16
SlowMs == 90
LagMs == 251
DashMs == 3901
StallMs == 300001

\* ------------------------------------------------------------------------
\* Arithmetic helpers
\* ------------------------------------------------------------------------
Max(a, b) == IF a >= b THEN a ELSE b
Min(a, b) == IF a <= b THEN a ELSE b

\* float -> int conversion of a Rect attribute: truncation toward zero
TruncDiv(n, d) == IF n >= 0 THEN n \div d ELSE -((-n) \div d)

\* rect.x += v, v a float held in hundredths
AddFloat(c, v100) == TruncDiv(c * 100 + v100, 100)

RECURSIVE SeqFilter(_, _)
\* the members of s whose index is in keep, in order
SeqFilter(s, keep) ==
  IF s = <<>> THEN <<>>
  ELSE LET n == Len(s)
           rest == SeqFilter(SubSeq(s, 1, n - 1), keep)
       IN IF n \in keep THEN Append(rest, s[n]) ELSE rest

\* ------------------------------------------------------------------------
\* Rectangles (pygame.Rect)
\* ------------------------------------------------------------------------
Rect(x, y, w, h) == [x |-> x, y |-> y, w |-> w, h |-> h]
Right(r) == r.x + r.w
Bottom(r) == r.y + r.h
CenterX(r) == r.x + (r.w \div 2)
CenterY(r) == r.y + (r.h \div 2)

ColliderRect(a, b) ==
  /\ a.x < b.x + b.w
  /\ a.y < b.y + b.h
  /\ a.x + a.w > b.x
  /\ a.y + a.h > b.y

\* ------------------------------------------------------------------------
\* Level definitions (GAME_LEVEL_SPECS)
\* ------------------------------------------------------------------------
NodesInData == <<6, 8, 6, 6, 7, 7, 5, 5, 8>>

NumWorlds == Min(MaxWorlds, NumWorldsInData)
NumNodes(w) == Min(MaxNodes, NodesInData[w + 1])

\* the keys of GAME_LEVEL_SPECS: every node of the map has an entry
LevelIds ==
  UNION {{<<w, n>> : n \in 0..(NodesInData[w + 1] - 1)} :
           w \in 0..(NumWorldsInData - 1)}

Level11 ==
  [name |-> "1-1",
   platforms |-> << <<0, H - 32, W, 32>>, <<W + 50, H - 32, W, 32>> >>,
   blocks |-> << <<6, 18>>, <<7, 18>>, <<12, 16>>, <<25, 18>> >>,
   coins |-> << <<10, 14>>, <<14, 14>>, <<27, 16>> >>,
   enemies |-> << <<200, H - 32 - 32, "goomba">>, <<380, H - 32 - 32, "koopa">>,
                  <<W + 100, H - 32 - 32, "goomba">> >>,
   goal |-> <<W + W - 60, H - 64>>]

Level12 ==
  [name |-> "1-2",
   platforms |-> << <<0, H - 32, W \div 2, 32>>,
                    <<(W \div 2) + 100, H - 32, (W \div 2) - 100, 32>>,
                    <<W, H - 32, W, 32>> >>,
   blocks |-> << <<5, 17>>, <<15, 15>>, <<20, 13>> >>,
   coins |-> << <<8, 15>>, <<18, 13>> >>,
   enemies |-> << <<150, H - 32 - 32, "goomba">>, <<450, H - 32 - 32, "koopa">> >>,
   goal |-> <<W + W - 60, H - 64>>]

Level13 ==
  [name |-> "1-3",
   platforms |-> << <<0, H - 32, W, 32>>, <<100, H - 96, 150, 32>>,
                    <<W, H - 32, W, 32>> >>,
   blocks |-> << <<8, 16>>, <<9, 16>>, <<10, 16>> >>,
   coins |-> << <<12, 14>>, <<13, 14>> >>,
   enemies |-> << <<250, H - 32 - 32, "goomba">>, <<350, H - 32 - 32, "koopa">> >>,
   goal |-> <<W + W - 60, H - 64>>]

Level21 ==
  [name |-> "2-1",
   platforms |-> << <<0, H - 32, W * 2, 32>> >>,
   blocks |-> << <<5, 18>>, <<20, 17>> >>,
   coins |-> << <<10, 16>>, <<25, 15>> >>,
   enemies |-> << <<200, H - 32 - 32, "goomba">> >>,
   goal |-> <<W * 2 - 60, H - 64>>]

\* One outcome of the randomized placeholder generator: the least counts
\* it can draw (5 blocks, 8 coins, 2 enemies), every drawn value inside
\* its randint range; the two enemies drew the same x.
PlaceholderLevel ==
  [name |-> "placeholder",
   platforms |-> << <<0, H - TILE * SCALE, W * 2, TILE * SCALE>> >>,
   blocks |-> << <<5, 7>>, <<9, 7>>, <<12, 5>>, <<20, 3>>, <<35, 0>> >>,
   coins |-> << <<5, 5>>, <<6, 5>>, <<9, 4>>, <<12, 3>>, <<20, 1>>,
                <<25, 0>>, <<30, -3>>, <<35, 5>> >>,
   enemies |-> << <<W \div 4, H - TILE * SCALE - TILE * SCALE, "goomba">>,
                  <<W \div 4, H - TILE * SCALE - TILE * SCALE, "goomba">> >>,
   goal |-> <<W * 2 - TILE * SCALE * 3, H - TILE * SCALE * 3>>]

\* Another outcome of the generator: it drew one block position twice and
\* a neighbour of it, and one coin position twice.
PlaceholderTwins ==
  [name |-> "placeholder",
   platforms |-> << <<0, H - TILE * SCALE, W * 2, TILE * SCALE>> >>,
   blocks |-> << <<5, 7>>, <<5, 7>>, <<6, 7>>, <<20, 3>>, <<35, 0>> >>,
   coins |-> << <<5, 5>>, <<6, 5>>, <<5, 5>>, <<12, 3>>, <<20, 1>>,
                <<25, 0>>, <<30, -3>>, <<35, 5>> >>,
   enemies |-> << <<W \div 2, H - TILE * SCALE - TILE * SCALE, "goomba">>,
                  <<W, H - TILE * SCALE - (TILE * SCALE + (TILE \div 2) * SCALE),
                    "koopa">> >>,
   goal |-> <<W * 2 - TILE * SCALE * 3, H - TILE * SCALE * 3>>]

GameLevelSpecs(id) ==
  CASE id = <<0, 0>> -> Level11
    [] id = <<0, 1>> -> Level12
    [] id = <<0, 3>> -> Level13
    [] id = <<1, 0>> -> Level21
    [] id = <<0, 4>> -> PlaceholderTwins
    [] OTHER -> PlaceholderLevel

\* the level_id of node n of world w in SMW_STYLE_MAP_DATA
NodeLevelId(w, n) == <<w, n>>

\* ------------------------------------------------------------------------
\* Spatial grid (class Grid).  cells maps a cell <<cx, cy>> to its bucket, a
\* sequence of entries [id, rect]: id stands for the identity of the Rect
\* object the bucket refers to, rect for its value.
\* ------------------------------------------------------------------------
CellSize == TILE * SCALE * 2

EmptyGrid == [c \in {} |-> <<>>]

\* a clear that leaves the buckets as they are
GridClearKeeping(cells) == cells

\* lines 266-267
GridClear(cells) == EmptyGrid

\* only the cell of the rectangle's top left corner
CellsOfCorner(r) == {<<r.x \div CellSize, r.y \div CellSize>>}

\* the cells range(cx1, cx2 + 1) x range(cy1, cy2 + 1) of a rectangle
CellsOf(r) ==
  {<<cx, cy>> : cx \in (r.x \div CellSize)..(Right(r) \div CellSize),
                cy \in (r.y \div CellSize)..(Bottom(r) \div CellSize)}

GridInsert(cells, id, r) ==
  LET cov == CellsOf(r)
  IN [c \in (DOMAIN cells) \cup cov |->
        (IF c \in DOMAIN cells THEN cells[c] ELSE <<>>)
          \o (IF c \in cov THEN << [id |-> id, rect |-> r] >> ELSE <<>>)]

\* the cells of a rectangle in the order the nested loops visit them
CellOrder(r) ==
  LET cx1 == r.x \div CellSize
      cy1 == r.y \div CellSize
      cx2 == Right(r) \div CellSize
      cy2 == Bottom(r) \div CellSize
      ny == cy2 - cy1 + 1
      nx == cx2 - cx1 + 1
  IN [k \in 1..(nx * ny) |-> <<cx1 + ((k - 1) \div ny), cy1 + ((k - 1) % ny)>>]

RECURSIVE Buckets(_, _)
\* the bucket contents of the cells of order, concatenated
Buckets(cells, order) ==
  IF order = <<>> THEN <<>>
  ELSE LET n == Len(order)
           c == order[n]
       IN Buckets(cells, SubSeq(order, 1, n - 1))
            \o (IF c \in DOMAIN cells THEN cells[c] ELSE <<>>)

RECURSIVE Dedup(_)
\* keeps an entry unless an earlier one has the same (x, y, width, height)
Dedup(es) ==
  IF es = <<>> THEN <<>>
  ELSE LET n == Len(es)
           init == SubSeq(es, 1, n - 1)
       IN IF \E k \in 1..(n - 1) : es[k].rect = es[n].rect
          THEN Dedup(init)
          ELSE Append(Dedup(init), es[n])

GridQuery(cells, r) == Dedup(Buckets(cells, CellOrder(r)))

RECURSIVE GridInsertAll(_, _, _)
\* inserts rects[k..] with ids k..
GridInsertAll(cells, rects, k) ==
  IF k > Len(rects) THEN cells
  ELSE GridInsertAll(GridInsert(cells, k, rects[k]), rects, k + 1)

\* ------------------------------------------------------------------------
\* State of IntegratedGame
\* ------------------------------------------------------------------------
VARIABLES
  game_state,             \* "overworld", "level", "game_over", "victory"
  paused,
  paused_from_state,
  current_world_on_map,
  current_node_on_map,
  ow_input_delay_timer,   \* ms
  current_level_spec,     \* a level id, or NoSpec (None)
  score,
  lives,
  time_left,              \* ms
  player_state,           \* "small", "big", "fire"
  invincibility_timer,    \* frames
  player_rect,
  player_vel,             \* [x, y], hundredths of a pixel
  player_on_ground,
  camera_offset_x,
  level_width,
  platform_rects,
  block_rects,
  coin_rects,
  active_enemies,         \* sequence of [id, rect, type, vel_x, state]
  goal_rect,              \* a rectangle, or NoRect (None)
  spatial_grid,           \* Grid.cells
  running,                \* "running", "quit", or "crashed" (unhandled error)
  clone,                  \* the SMB3Clone object of the tkinter program
  music,                  \* where its background_music thread stands
  mario,                  \* the MarioGame object of the overworld program
  mario3,                 \* the MarioGame object of the three-level program
  invaders                \* the locals of main in the Space Invaders program

gamevars ==
  <<game_state, paused, paused_from_state, current_world_on_map,
    current_node_on_map, ow_input_delay_timer, current_level_spec, score,
    lives, time_left, player_state, invincibility_timer, player_rect,
    player_vel, player_on_ground, camera_offset_x, level_width,
    platform_rects, block_rects, coin_rects, active_enemies, goal_rect,
    spatial_grid, running>>

vars == <<gamevars, clone, music, mario, mario3, invaders>>

NoSpec == <<>>
NoRect == Rect(0, 0, 0, 0)

\* The game object as one record, so that the methods are operators on it.
\* Its field out collects what a step emits: the sound cues played and the
\* lines printed, in order.
Game ==
  [game_state |-> game_state, paused |-> paused,
   paused_from_state |-> paused_from_state,
   current_world_on_map |-> current_world_on_map,
   current_node_on_map |-> current_node_on_map,
   ow_input_delay_timer |-> ow_input_delay_timer,
   current_level_spec |-> current_level_spec, score |-> score,
   lives |-> lives, time_left |-> time_left, player_state |-> player_state,
   invincibility_timer |-> invincibility_timer, player_rect |-> player_rect,
   player_vel |-> player_vel, player_on_ground |-> player_on_ground,
   camera_offset_x |-> camera_offset_x, level_width |-> level_width,
   platform_rects |-> platform_rects, block_rects |-> block_rects,
   coin_rects |-> coin_rects, active_enemies |-> active_enemies,
   goal_rect |-> goal_rect, spatial_grid |-> spatial_grid,
   running |-> running, out |-> <<>>]

\* the step's result g becomes the next state
Becomes(g) ==
  /\ game_state' = g.game_state
  /\ paused' = g.paused
  /\ paused_from_state' = g.paused_from_state
  /\ current_world_on_map' = g.current_world_on_map
  /\ current_node_on_map' = g.current_node_on_map
  /\ ow_input_delay_timer' = g.ow_input_delay_timer
  /\ current_level_spec' = g.current_level_spec
  /\ score' = g.score
  /\ lives' = g.lives
  /\ time_left' = g.time_left
  /\ player_state' = g.player_state
  /\ invincibility_timer' = g.invincibility_timer
  /\ player_rect' = g.player_rect
  /\ player_vel' = g.player_vel
  /\ player_on_ground' = g.player_on_ground
  /\ camera_offset_x' = g.camera_offset_x
  /\ level_width' = g.level_width
  /\ platform_rects' = g.platform_rects
  /\ block_rects' = g.block_rects
  /\ coin_rects' = g.coin_rects
  /\ active_enemies' = g.active_enemies
  /\ goal_rect' = g.goal_rect
  /\ spatial_grid' = g.spatial_grid
  /\ running' = g.running
  /\ clone' = clone
  /\ music' = music
  /\ mario' = mario
  /\ mario3' = mario3
  /\ invaders' = invaders

PlayerSizes(st) ==
  CASE st = "small" -> <<TILE, TILE + (TILE \div 2)>>
    [] st = "big" -> <<TILE, TILE * 2>>
    [] st = "fire" -> <<TILE, TILE * 2>>

PlaySound(g, cue) == [g EXCEPT !.out = Append(@, cue)]
Log(g, line) == [g EXCEPT !.out = Append(@, line)]

InitializePlayerRect(st) ==
  LET sz == PlayerSizes(st)
  IN Rect(50, H - (TILE * SCALE) - sz[2], sz[1], sz[2])

\* rect.midbottom = (mx, my)
SetMidBottom(r, mx, my) == [r EXCEPT !.x = mx - (r.w \div 2), !.y = my - r.h]

SetPlayerLevelState(g, new_char_state) ==
  IF g.player_state = new_char_state
       /\ <<g.player_rect.w, g.player_rect.h>> # <<0, 0>>
  THEN g
  ELSE LET old == IF g.player_rect.w = 0
                  THEN <<50, H - (TILE * SCALE)>>
                  ELSE <<CenterX(g.player_rect), Bottom(g.player_rect)>>
           sz == PlayerSizes(new_char_state)
           sized == [g.player_rect EXCEPT !.w = sz[1], !.h = sz[2]]
       IN [g EXCEPT !.player_state = new_char_state,
                    !.player_rect = SetMidBottom(sized, old[1], old[2])]

\* entering the overworld with the pause overlay left as it is
LoadOverworldStateOverlaid(g) ==
  Log([g EXCEPT !.game_state = "overworld"], "Transitioned to Overworld")

LoadOverworldState(g) ==
  Log([g EXCEPT !.game_state = "overworld", !.paused = FALSE],
      "Transitioned to Overworld")

\* ------------------------------------------------------------------------
\* load_level_from_spec
\* ------------------------------------------------------------------------
PlatformRect(p) == Rect(p[1], p[2], p[3], p[4])

BlockRect(b) ==
  Rect(b[1] * TILE * SCALE, b[2] * TILE * SCALE, TILE * SCALE, TILE * SCALE)

CoinRect(c) ==
  Rect(c[1] * TILE * SCALE + ((TILE * SCALE - TILE) \div 2),
       c[2] * TILE * SCALE + ((TILE * SCALE - TILE) \div 2), TILE, TILE)

\* the enemy dict built from the spawn descriptor e, the k-th of the level
SpawnEnemy(e, k) ==
  LET enemy_w == TILE * SCALE
      enemy_h == IF e[3] = "goomba" THEN TILE * SCALE
                 ELSE (TILE * SCALE * 3) \div 2
      rect_y == H - (TILE * SCALE) - enemy_h
  IN [id |-> k, rect |-> Rect(e[1], rect_y, enemy_w, enemy_h), type |-> e[3],
      vel_x |-> IF e[3] = "goomba" THEN -2 ELSE -3, orig_y |-> rect_y,
      state |-> "walking", vel_y |-> 0]

GoalRect(goal) == Rect(goal[1], goal[2], TILE * SCALE, TILE * SCALE * 2)

\* a width that is the platforms' extent even when the viewport is wider
LevelWidthOfExtent(platforms) ==
  IF platforms # <<>>
  THEN LET ext == {platforms[k][1] + platforms[k][3] : k \in DOMAIN platforms}
       IN CHOOSE m \in ext : \A e \in ext : e <= m
  ELSE W

\* lines 402-407
LevelWidthOf(platforms) ==
  IF platforms # <<>>
  THEN LET ext == {platforms[k][1] + platforms[k][3] : k \in DOMAIN platforms}
           max_x == CHOOSE m \in ext : \A e \in ext : e <= m
       IN Max(W, max_x)
  ELSE W

\* a respawn that also hands back the full set of lives
RespawnPlayerRefilled(g) ==
  LET small == SetPlayerLevelState(g, "small")
  IN [small EXCEPT
        !.player_rect = SetMidBottom(small.player_rect, TILE * SCALE * 2,
                                     H - (TILE * SCALE)),
        !.player_vel = [x |-> 0, y |-> 0],
        !.player_on_ground = FALSE,
        !.invincibility_timer = 0,
        !.lives = StartLives]

\* a respawn that keeps the velocity the player died with
RespawnPlayerMoving(g) ==
  LET small == SetPlayerLevelState(g, "small")
  IN [small EXCEPT
        !.player_rect = SetMidBottom(small.player_rect, TILE * SCALE * 2,
                                     H - (TILE * SCALE)),
        !.player_on_ground = FALSE,
        !.invincibility_timer = 0]

\* the player fields after lines 409-413
RespawnPlayer(g) ==
  LET small == SetPlayerLevelState(g, "small")
  IN [small EXCEPT
        !.player_rect = SetMidBottom(small.player_rect, TILE * SCALE * 2,
                                     H - (TILE * SCALE)),
        !.player_vel = [x |-> 0, y |-> 0],
        !.player_on_ground = FALSE,
        !.invincibility_timer = 0]

\* lines 394-446 for the level definition spec, held in the map under id
LoadSpec(g, id, spec) ==
  LET g1 == [g EXCEPT !.game_state = "level", !.paused = FALSE,
                      !.current_level_spec = id, !.time_left = LevelTime,
                      !.camera_offset_x = 0,
                      !.level_width = LevelWidthOf(spec.platforms)]
      g2 == RespawnPlayer(g1)
      plats == [k \in DOMAIN spec.platforms |-> PlatformRect(spec.platforms[k])]
      blocks == [k \in DOMAIN spec.blocks |-> BlockRect(spec.blocks[k])]
  IN Log([g2 EXCEPT
            !.platform_rects = plats,
            !.block_rects = blocks,
            !.coin_rects = [k \in DOMAIN spec.coins |-> CoinRect(spec.coins[k])],
            !.active_enemies =
               [k \in DOMAIN spec.enemies |-> SpawnEnemy(spec.enemies[k], k)],
            !.goal_rect = GoalRect(spec.goal),
            !.spatial_grid =
               GridInsertAll(GridClear(g.spatial_grid), plats \o blocks, 1)],
         "Loaded Level")

LoadLevelFromSpec(g, id) == LoadSpec(g, id, GameLevelSpecs(id))

\* ------------------------------------------------------------------------
\* update_overworld_map_navigation
\* ------------------------------------------------------------------------
Confirming(keys) == "RETURN" \in keys \/ "SPACE" \in keys

\* the map as the model cuts it: the number of nodes of each world
MapCut == [w \in 1..NumWorlds |-> NumNodes(w - 1)]

\* a world change that leaves the node cursor where it is
NavigateOnKeepingNode(g, keys, sizes) ==
  LET num_nodes == sizes[g.current_world_on_map + 1]
  IN IF "RIGHT" \in keys
     THEN [g EXCEPT !.current_node_on_map = (@ + 1) % num_nodes]
     ELSE IF "LEFT" \in keys
     THEN [g EXCEPT !.current_node_on_map = (@ - 1 + num_nodes) % num_nodes]
     ELSE IF "UP" \in keys
     THEN [g EXCEPT !.current_world_on_map = (@ + 1) % Len(sizes)]
     ELSE IF "DOWN" \in keys
     THEN [g EXCEPT !.current_world_on_map = (@ - 1 + Len(sizes)) % Len(sizes)]
     ELSE g

\* lines 456-481 on a map whose worlds have sizes[w + 1] nodes
NavigateOn(g, keys, sizes) ==
  LET num_nodes == sizes[g.current_world_on_map + 1]
  IN IF "RIGHT" \in keys
     THEN [g EXCEPT !.current_node_on_map = (@ + 1) % num_nodes]
     ELSE IF "LEFT" \in keys
     THEN [g EXCEPT !.current_node_on_map = (@ - 1 + num_nodes) % num_nodes]
     ELSE IF "UP" \in keys
     THEN [g EXCEPT !.current_world_on_map = (@ + 1) % Len(sizes),
                    !.current_node_on_map = 0]
     ELSE IF "DOWN" \in keys
     THEN [g EXCEPT !.current_world_on_map = (@ - 1 + Len(sizes)) % Len(sizes),
                    !.current_node_on_map = 0]
     ELSE IF Confirming(keys)
     THEN LET id == NodeLevelId(g.current_world_on_map, g.current_node_on_map)
          IN IF id \in LevelIds
             THEN LoadLevelFromSpec(PlaySound(g, "BEEP_OW_SELECT"), id)
             ELSE Log(g, "Warning: Level ID not found")
     ELSE g

Navigate(g, keys) == NavigateOn(g, keys, MapCut)

\* navigation that does not wait for the input timer
UpdateOverworldMapNavigationEager(g, keys, dt) ==
  LET g1 == [g EXCEPT !.ow_input_delay_timer = @ - dt]
      moved == keys \cap {"RIGHT", "LEFT", "UP", "DOWN", "RETURN", "SPACE"} # {}
      g2 == Navigate(g1, keys)
  IN IF moved
     THEN [(IF Confirming(keys) THEN g2 ELSE PlaySound(g2, "BEEP_OW_MOVE"))
             EXCEPT !.ow_input_delay_timer = OwInputCooldown]
     ELSE g2

\* lines 450-486 on a map whose worlds have sizes[w + 1] nodes
UpdateOverworldOn(g, keys, dt, sizes) ==
  LET g1 == [g EXCEPT !.ow_input_delay_timer = @ - dt]
  IN IF g1.ow_input_delay_timer > 0 THEN g1
     ELSE LET moved == keys \cap {"RIGHT", "LEFT", "UP", "DOWN", "RETURN", "SPACE"} # {}
              g2 == NavigateOn(g1, keys, sizes)
          IN IF moved
             THEN [(IF Confirming(keys) THEN g2 ELSE PlaySound(g2, "BEEP_OW_MOVE"))
                     EXCEPT !.ow_input_delay_timer = OwInputCooldown]
             ELSE g2

UpdateOverworldMapNavigation(g, keys, dt) == UpdateOverworldOn(g, keys, dt, MapCut)

\* ------------------------------------------------------------------------
\* Transitions, hurt and death
\* ------------------------------------------------------------------------
GameOverTransition(g) ==
  PlaySound([g EXCEPT !.game_state = "game_over"], "BEEP_GAMEOVER")

\* a bonus that rounds the seconds left to the nearest whole second
TimeBonusOfRounded(t) == ((Max(0, t) + 500) \div 1000) * TimeBonus

\* int(max(0, time_left)) * 10, time_left in ms
TimeBonusOf(t) == (Max(0, t) \div 1000) * TimeBonus

LevelCompleteTransition(g) ==
  LET g1 == PlaySound([g EXCEPT !.game_state = "victory"], "BEEP_VICTORY")
  IN [g1 EXCEPT !.score = @ + TimeBonusOf(g.time_left)]

\* a death handler that ends the game only below zero lives
HandlePlayerDeathLate(g) ==
  LET g1 == PlaySound([g EXCEPT !.lives = @ - 1], "BEEP_HURT")
  IN IF g1.lives < 0
     THEN GameOverTransition(g1)
     ELSE LET g2 == [g1 EXCEPT !.invincibility_timer = FPS * 2]
          IN IF g2.current_level_spec # NoSpec
             THEN LoadLevelFromSpec(g2, g2.current_level_spec)
             ELSE LoadOverworldState(g2)

\* lines 606-618
HandlePlayerDeath(g) ==
  LET g1 == PlaySound([g EXCEPT !.lives = @ - 1], "BEEP_HURT")
  IN IF g1.lives <= 0
     THEN GameOverTransition(g1)
     ELSE LET g2 == [g1 EXCEPT !.invincibility_timer = FPS * 2]
          IN IF g2.current_level_spec # NoSpec
             THEN LoadLevelFromSpec(g2, g2.current_level_spec)
             ELSE LoadOverworldState(g2)

\* a hurt that is a death whatever the size-state
HandlePlayerHurtLethal(g) == HandlePlayerDeath(g)

\* lines 597-604
HandlePlayerHurt(g) ==
  IF g.player_state = "big" \/ g.player_state = "fire"
  THEN PlaySound([SetPlayerLevelState(g, "small") EXCEPT
                    !.invincibility_timer = FPS * 2], "BEEP_HURT")
  ELSE IF g.player_state = "small"
  THEN HandlePlayerDeath(g)
  ELSE g

\* ------------------------------------------------------------------------
\* handle_level_collisions
\* ------------------------------------------------------------------------
\* the body of the loop for one rectangle of the query result
\* a resolution that snaps a falling player to the surface without
\* recording the landing
ResolveOneAirborne(g, rect, direction) ==
  IF ~ColliderRect(g.player_rect, rect) THEN g
  ELSE IF direction = "horizontal"
  THEN LET r == IF g.player_vel.x > 0
                THEN [g.player_rect EXCEPT !.x = rect.x - g.player_rect.w]
                ELSE IF g.player_vel.x < 0
                THEN [g.player_rect EXCEPT !.x = Right(rect)]
                ELSE g.player_rect
       IN [g EXCEPT !.player_rect = r, !.player_vel.x = 0]
  ELSE LET r == IF g.player_vel.y > 0
                THEN [g.player_rect EXCEPT !.y = rect.y - g.player_rect.h]
                ELSE IF g.player_vel.y < 0
                THEN [g.player_rect EXCEPT !.y = Bottom(rect)]
                ELSE g.player_rect
       IN [g EXCEPT !.player_rect = r, !.player_vel.y = 0]

\* lines 579-594 for one rect of collidables
ResolveOne(g, rect, direction) ==
  IF ~ColliderRect(g.player_rect, rect) THEN g
  ELSE IF direction = "horizontal"
  THEN LET r == IF g.player_vel.x > 0
                THEN [g.player_rect EXCEPT !.x = rect.x - g.player_rect.w]
                ELSE IF g.player_vel.x < 0
                THEN [g.player_rect EXCEPT !.x = Right(rect)]
                ELSE g.player_rect
       IN [g EXCEPT !.player_rect = r, !.player_vel.x = 0]
  ELSE LET r == IF g.player_vel.y > 0
                THEN [g.player_rect EXCEPT !.y = rect.y - g.player_rect.h]
                ELSE IF g.player_vel.y < 0
                THEN [g.player_rect EXCEPT !.y = Bottom(rect)]
                ELSE g.player_rect
       IN [g EXCEPT !.player_rect = r,
                    !.player_on_ground = IF g.player_vel.y > 0 THEN TRUE ELSE @,
                    !.player_vel.y = 0]

RECURSIVE ResolveFrom(_, _, _, _)
ResolveFrom(g, collidables, k, direction) ==
  IF k > Len(collidables) THEN g
  ELSE ResolveFrom(ResolveOne(g, collidables[k].rect, direction),
                   collidables, k + 1, direction)

HandleLevelCollisions(g, direction) ==
  ResolveFrom(g, GridQuery(g.spatial_grid, g.player_rect), 1, direction)

\* ------------------------------------------------------------------------
\* update_level_gameplay: the enemy loop
\* ------------------------------------------------------------------------
\* dict equality of two enemies (every key but the object identity)
EnemyEq(a, b) == [a EXCEPT !.id = 0] = [b EXCEPT !.id = 0]

\* a stomp test that accepts any contact made while falling
IsStompAnyFall(g, enemy) ==
  g.player_vel.y > 0

\* the stomp test of line 535
IsStomp(g, enemy) ==
  g.player_vel.y > 0 /\ Bottom(g.player_rect) < CenterY(enemy.rect)

\* an enemy after its walk of this tick (lines 527-531)
WalkEnemy(enemy, dt, width) ==
  LET moved == [enemy EXCEPT
                  !.rect.x = AddFloat(@, (enemy.vel_x * EnemySpeed * dt) \div 20)]
  IN IF moved.rect.x < 0 \/ Right(moved.rect) > width
     THEN [moved EXCEPT !.vel_x = -@]
     ELSE moved

\* stores the mutated enemy object e where the list refers to it
Store(list, e) == [k \in DOMAIN list |-> IF list[k].id = e.id THEN e ELSE list[k]]

NumLoads(g) == Cardinality({k \in DOMAIN g.out : g.out[k] = "Loaded Level"})

\* One iteration of `for enemy in self.active_enemies[:]`.  st.g is the
\* game, st.shared tells whether self.active_enemies still is the list the
\* copy was taken from (a reload replaces it by fresh objects).
EnemyStep(st, enemy, dt) ==
  LET g == st.g
  IN IF enemy.state = "walking"
     THEN LET e1 == WalkEnemy(enemy, dt, g.level_width)
              put(gg, e) == IF st.shared
                            THEN [gg EXCEPT !.active_enemies = Store(@, e)]
                            ELSE gg
              g1 == put(g, e1)
          IN IF ColliderRect(g1.player_rect, e1.rect)
             THEN IF IsStomp(g1, e1)
                  THEN LET g2 == PlaySound(put(g1, [e1 EXCEPT !.state = "stomped"]),
                                           "BEEP_STOMP")
                       IN [st EXCEPT !.g = [g2 EXCEPT !.player_vel.y = (JUMP_VEL * 6) \div 10,
                                                      !.score = @ + StompScore]]
                  ELSE IF g1.invincibility_timer <= 0
                  THEN LET g2 == HandlePlayerHurt(g1)
                       IN [st EXCEPT !.g = g2,
                                     !.shared = @ /\ NumLoads(g2) = NumLoads(g1)]
                  ELSE [st EXCEPT !.g = g1]
             ELSE [st EXCEPT !.g = g1]
     ELSE IF enemy.state = "stomped"
     THEN LET hits == {k \in DOMAIN g.active_enemies :
                         EnemyEq(g.active_enemies[k], enemy)}
          IN IF hits = {}
             THEN [st EXCEPT !.g.running = "crashed"]   \* ValueError
             ELSE LET first == CHOOSE k \in hits : \A j \in hits : k <= j
                  IN [st EXCEPT !.g.active_enemies =
                        SeqFilter(@, (DOMAIN @) \ {first})]
     ELSE st

RECURSIVE EnemyLoop(_, _, _, _)
EnemyLoop(st, copy, k, dt) ==
  IF k > Len(copy) \/ st.g.running = "crashed" THEN st
  ELSE EnemyLoop(EnemyStep(st, copy[k], dt), copy, k + 1, dt)

UpdateEnemies(g, dt) ==
  EnemyLoop([g |-> g, shared |-> TRUE], g.active_enemies, 1, dt).g

\* ------------------------------------------------------------------------
\* update_level_gameplay
\* ------------------------------------------------------------------------
\* list.remove(x): drops the first member equal to x
RemoveFirst(list, x) ==
  LET hits == {k \in DOMAIN list : list[k] = x}
      first == CHOOSE k \in hits : \A j \in hits : k <= j
  IN SeqFilter(list, (DOMAIN list) \ {first})

RECURSIVE CoinLoop(_, _, _)
\* `for coin_rect in self.coin_rects[:]`
CoinLoop(g, copy, k) ==
  IF k > Len(copy) THEN g
  ELSE IF ColliderRect(g.player_rect, copy[k])
  THEN CoinLoop(PlaySound([g EXCEPT !.coin_rects = RemoveFirst(@, copy[k]),
                                    !.score = @ + CoinScore], "BEEP_COIN"),
                copy, k + 1)
  ELSE CoinLoop(g, copy, k + 1)

\* a coin loop that stops at its first pickup
CollectCoinsOnce(g) ==
  LET hits == {k \in DOMAIN g.coin_rects :
                 ColliderRect(g.player_rect, g.coin_rects[k])}
  IN IF hits = {} THEN g
     ELSE LET first == CHOOSE k \in hits : \A j \in hits : k <= j
          IN PlaySound([g EXCEPT !.coin_rects = SeqFilter(@, (DOMAIN @) \ {first}),
                                 !.score = @ + CoinScore], "BEEP_COIN")

\* lines 549-553
CollectCoins(g) == CoinLoop(g, g.coin_rects, 1)

\* an input step that jumps whenever the jump key is held
ApplyInputAnyJump(g, keys, dt) ==
  LET vx == IF "RIGHT" \in keys THEN (PlayerSpeed * dt) \div 10
            ELSE IF "LEFT" \in keys THEN -((PlayerSpeed * dt) \div 10)
            ELSE 0
      jump == "SPACE" \in keys
      g1 == [g EXCEPT !.player_vel.x = vx]
      g2 == IF jump
            THEN PlaySound([g1 EXCEPT !.player_vel.y = JUMP_VEL,
                                      !.player_on_ground = FALSE], "BEEP_JUMP")
            ELSE g1
  IN [g2 EXCEPT !.player_vel.y = Min(@ + GRAVITY, TerminalVel)]

\* lines 494-508: horizontal input, jump, gravity
ApplyInput(g, keys, dt) ==
  LET vx == IF "RIGHT" \in keys THEN (PlayerSpeed * dt) \div 10
            ELSE IF "LEFT" \in keys THEN -((PlayerSpeed * dt) \div 10)
            ELSE 0
      jump == "SPACE" \in keys /\ g.player_on_ground
      g1 == [g EXCEPT !.player_vel.x = vx]
      g2 == IF jump
            THEN PlaySound([g1 EXCEPT !.player_vel.y = JUMP_VEL,
                                      !.player_on_ground = FALSE], "BEEP_JUMP")
            ELSE g1
  IN [g2 EXCEPT !.player_vel.y = Min(@ + GRAVITY, TerminalVel)]

\* lines 511-516: axis-separated move and resolution
MovePlayer(g) ==
  LET gx == HandleLevelCollisions(
              [g EXCEPT !.player_rect.x = AddFloat(@, g.player_vel.x)],
              "horizontal")
  IN HandleLevelCollisions(
       [gx EXCEPT !.player_rect.y = AddFloat(@, gx.player_vel.y),
                  !.player_on_ground = FALSE],
       "vertical")

\* a camera held at the left end of the level only
ScrollCameraFromLeft(g) ==
  LET target_camera_x == CenterX(g.player_rect) - (W \div 2)
  IN [g EXCEPT !.camera_offset_x = Max(0, target_camera_x)]

\* lines 520-521
ScrollCamera(g) ==
  LET target_camera_x == CenterX(g.player_rect) - (W \div 2)
  IN [g EXCEPT !.camera_offset_x = Max(0, Min(target_camera_x, g.level_width - W))]

GoalReached(g) ==
  g.goal_rect # NoRect /\ ColliderRect(g.player_rect, g.goal_rect)

\* an end of tick that tests the time limit alone
EndOfTickTimeOnly(g, dt) ==
  LET g1 == IF g.invincibility_timer > 0
            THEN [g EXCEPT !.invincibility_timer = @ - 1] ELSE g
      g2 == [g1 EXCEPT !.time_left = @ - dt]
  IN IF g2.time_left <= 0 THEN HandlePlayerDeath(g2) ELSE g2

\* lines 560-571: what follows the goal check
EndOfTick(g, dt) ==
  LET g1 == IF g.invincibility_timer > 0
            THEN [g EXCEPT !.invincibility_timer = @ - 1] ELSE g
      g2 == [g1 EXCEPT !.time_left = @ - dt]
      g3 == IF g2.time_left <= 0 THEN HandlePlayerDeath(g2) ELSE g2
  IN IF g3.player_rect.y > H THEN HandlePlayerDeath(g3) ELSE g3

\* a tick that carries on with the timers after the level is complete
UpdateLevelGameplayThrough(g, keys, dt) ==
  IF g.current_level_spec = NoSpec THEN g
  ELSE LET g1 == ScrollCamera(MovePlayer(ApplyInput(g, keys, dt)))
           g2 == UpdateEnemies(g1, dt)
       IN IF g2.running = "crashed" THEN g2
          ELSE LET g3 == CollectCoins(g2)
               IN IF GoalReached(g3)
                  THEN EndOfTick(LevelCompleteTransition(g3), dt)
                  ELSE EndOfTick(g3, dt)

\* lines 489-571
UpdateLevelGameplay(g, keys, dt) ==
  IF g.current_level_spec = NoSpec THEN g
  ELSE LET g1 == ScrollCamera(MovePlayer(ApplyInput(g, keys, dt)))
           g2 == UpdateEnemies(g1, dt)
       IN IF g2.running = "crashed" THEN g2
          ELSE LET g3 == CollectCoins(g2)
               IN IF GoalReached(g3)
                  THEN LevelCompleteTransition(g3)
                  ELSE EndOfTick(g3, dt)

\* ------------------------------------------------------------------------
\* run_game_loop
\* ------------------------------------------------------------------------
\* a pause toggle that resumes without restoring the suspended mode's memory
TogglePauseForgetful(g) ==
  PlaySound(IF ~g.paused
            THEN [g EXCEPT !.paused = TRUE]
            ELSE [g EXCEPT !.paused = FALSE,
                           !.game_state = g.paused_from_state],
            "BEEP_PAUSE")

\* lines 812-817
TogglePause(g) ==
  PlaySound(IF ~g.paused
            THEN [g EXCEPT !.paused = TRUE,
                           !.paused_from_state = g.game_state]
            ELSE [g EXCEPT !.paused = FALSE,
                           !.game_state = g.paused_from_state],
            "BEEP_PAUSE")

\* the KEYDOWN branch of the event loop (lines 800-825) for one event
HandleKeyDown(g, key) ==
  LET quits == key = "ESCAPE" /\ g.game_state = "overworld"
      g1 == IF key = "ESCAPE" /\ g.game_state \in {"level", "game_over", "victory"}
            THEN LoadOverworldState(g)
            ELSE g
      g2 == IF key = "P" /\ g1.game_state \notin {"game_over", "victory"}
            THEN TogglePause(g1)
            ELSE g1
      g3 == IF g2.game_state = "game_over" /\ key = "RETURN"
            THEN LoadOverworldState([g2 EXCEPT !.score = 0, !.lives = StartLives])
            ELSE g2
      g4 == IF g3.game_state = "victory" /\ key = "RETURN"
            THEN LoadOverworldState(g3)
            ELSE g3
  IN IF quits THEN [g EXCEPT !.running = "quit"] ELSE g4

\* the update part of one pass of the loop (lines 828-846)
UpdateFrame(g, keys, dt) ==
  IF g.paused THEN g
  ELSE IF g.game_state = "overworld"
  THEN UpdateOverworldMapNavigation(g, keys, dt)
  ELSE IF g.game_state = "level"
  THEN IF g.current_level_spec # NoSpec
       THEN UpdateLevelGameplay(g, keys, dt)
       ELSE LoadOverworldState(g)
  ELSE g

\* ------------------------------------------------------------------------
\* Inputs explored
\* ------------------------------------------------------------------------
KeyChoices == {{}, {"RIGHT"}, {"LEFT"}, {"UP"}, {"DOWN"}, {"RETURN"}, {"SPACE"}}
DtChoices == {FrameMs, SlowMs, LagMs, DashMs, StallMs}

LevelElapsed == LevelTime - time_left

\* The frames explored.  Overworld: slow frames and short stalls, an idle
\* frame only while the input timer still runs.  Level: ordinary idle
\* or jump frames within MaxLevelTicks of the load and, within
\* MaxEarlyTicks of the load, a long stall with Right held, a short stall
\* with Left held, or a stall longer than the time limit.
FrameExplored(keys, dt) ==
  IF paused \/ game_state \in {"game_over", "victory"}
  THEN keys = {} /\ dt = FrameMs
  ELSE IF game_state = "overworld"
  THEN /\ dt \in {SlowMs, LagMs}
       /\ keys = {} => ow_input_delay_timer > 0
       /\ Confirming(keys) => score <= MaxEntryScore
  ELSE \/ /\ dt = FrameMs
          /\ keys \in {{}, {"SPACE"}}
          /\ LevelElapsed < MaxLevelTicks * FrameMs
       \/ /\ LevelElapsed <= MaxEarlyTicks * FrameMs
          /\ <<keys, dt>> \in {<<{"RIGHT"}, DashMs>>, <<{"LEFT"}, LagMs>>,
                               <<{}, StallMs>>}

\* the key events explored
KeyExplored(key) ==
  key = "ESCAPE" =>
    /\ game_state = "level" => LevelElapsed <= MaxEarlyTicks * FrameMs
    /\ game_state = "game_over" => lives > -MaxLivesDebt

\* ------------------------------------------------------------------------
\* Specification
\* ------------------------------------------------------------------------
\* the fields after __init__ (lines 332-365)
Constructed ==
  [game_state |-> "overworld",
   paused |-> FALSE,
   paused_from_state |-> "overworld",
   current_world_on_map |-> 0,
   current_node_on_map |-> 0,
   ow_input_delay_timer |-> 0,
   current_level_spec |-> NoSpec,
   score |-> 0,
   lives |-> StartLives,
   time_left |-> LevelTime,
   player_state |-> "small",
   invincibility_timer |-> 0,
   player_rect |-> InitializePlayerRect("small"),
   player_vel |-> [x |-> 0, y |-> 0],
   player_on_ground |-> FALSE,
   camera_offset_x |-> 0,
   level_width |-> W,
   platform_rects |-> <<>>,
   block_rects |-> <<>>,
   coin_rects |-> <<>>,
   active_enemies |-> <<>>,
   goal_rect |-> NoRect,
   spatial_grid |-> EmptyGrid,
   running |-> "running",
   out |-> <<>>]

\* ------------------------------------------------------------------------
\* SMB3Clone (src/deltamario5.16.25.py), a tkinter program
\* ------------------------------------------------------------------------
\* Canvas coordinates and velocities are in tenths of a pixel, so that the
\* gravity 0.6 is the integer 6.  The object is the record clone; as for
\* Game, its field out collects the beeps of a step (frequency, duration)
\* and its field sched the callbacks the step registers with root.after.
Width == 5120
Height == 4480
TileSize == 320
CloneGravity == 6
JumpStrength == -100
Accel == 30
UpdateMs == 16
ReturnMs == 2000
NodeCount == 5
CloneLives == 3
CoinPoints == 100

Abs(a) == IF a < 0 THEN -a ELSE a

\* the coordinates of a canvas item
Box(x1, y1, x2, y2) == [x1 |-> x1, y1 |-> y1, x2 |-> x2, y2 |-> y2]
NoBox == Box(0, 0, 0, 0)
MoveBox(b, dx, dy) == Box(b.x1 + dx, b.y1 + dy, b.x2 + dx, b.y2 + dy)

\* self.tiles of start_level: the ground row, then the floating blocks
tiles ==
  [i \in 1..(Width \div TileSize) |->
     Box((i - 1) * TileSize, Height - TileSize, i * TileSize, Height)]
  \o <<Box(1000, 3000, 1000 + TileSize, 3000 + TileSize),
       Box(1320, 3000, 1320 + TileSize, 3000 + TileSize),
       Box(3000, 2500, 3000 + TileSize, 2500 + TileSize),
       Box(3320, 2500, 3320 + TileSize, 2500 + TileSize)>>
CoinBox == Box(3200, 2000, 3360, 2160)
EnemyBox == Box(2000, Height - TileSize - 160, 2160, Height - TileSize)
PlayerStart == Box(500, Height - TileSize - 240, 660, Height - TileSize)
PlayerReset == Box(500, Height - 560, 660, Height - 320)

Beep(c, freq, dur) ==
  [c EXCEPT !.out = Append(@, [freq |-> freq, dur |-> dur])]
short_boop(c) == Beep(c, 392, 40)
jump_sound(c) == Beep(c, 784, 60)
coin_sound(c) == Beep(c, 1046, 80)
gameover_sound(c) ==
  Beep(Beep(Beep(Beep(c, 523, 120), 415, 120), 349, 120), 261, 120)

\* root.after(ms, cb)
After(c, ms, cb) == [c EXCEPT !.sched = Append(@, [cb |-> cb, due |-> ms])]

key_down(c, keysym) == [c EXCEPT !.keys = @ \cup {keysym}]
key_up(c, keysym) == [c EXCEPT !.keys = @ \ {keysym}]

\* canvas.delete("all") removes the level's items
start_overworld(c) ==
  [c EXCEPT !.state = "overworld",
            !.player = NoBox,
            !.coin = FALSE,
            !.selected_node = c.current_level]

start_level(c) ==
  [c EXCEPT !.state = "level",
            !.player = PlayerStart,
            !.player_vel = <<0, 0>>,
            !.on_ground = FALSE,
            !.coin = TRUE]

\* a move of the cursor that stops at neither end of the map
update_overworld_wrapping(c) ==
  LET left == "Left" \in c.keys
      a == IF left
           THEN [c EXCEPT !.selected_node = (@ - 1) % NodeCount,
                          !.keys = @ \ {"Left"}]
           ELSE c
      right == "Right" \in a.keys
      b == IF right
           THEN [a EXCEPT !.selected_node = (@ + 1) % NodeCount,
                          !.keys = @ \ {"Right"}]
           ELSE a
      d == IF left \/ right THEN short_boop(b) ELSE b
  IN  IF "Return" \in d.keys
      THEN start_level([d EXCEPT !.keys = @ \ {"Return"},
                                 !.current_level = d.selected_node])
      ELSE d

update_overworld(c) ==
  LET left == "Left" \in c.keys /\ c.selected_node > 0
      a == IF left
           THEN [c EXCEPT !.selected_node = @ - 1, !.keys = @ \ {"Left"}]
           ELSE c
      right == "Right" \in a.keys /\ a.selected_node < NodeCount - 1
      b == IF right
           THEN [a EXCEPT !.selected_node = @ + 1, !.keys = @ \ {"Right"}]
           ELSE a
      moved == left \/ right
      d == IF moved THEN short_boop(b) ELSE b
  IN  IF "Return" \in d.keys
      THEN start_level([d EXCEPT !.keys = @ \ {"Return"},
                                 !.current_level = d.selected_node])
      ELSE d

check_overlap(a, b) ==
  ~(a.x2 < b.x1 \/ a.x1 > b.x2 \/ a.y2 < b.y1 \/ a.y1 > b.y2)

\* canvas.move(self.player, dx, dy)
MoveItem(c, dx, dy) == [c EXCEPT !.player = MoveBox(@, dx, dy)]

\* the loop over self.tiles from tile k on; p is the player's box as read
\* once before the loop
RECURSIVE TileLoop(_, _, _)
TileLoop(c, p, k) ==
  IF k > Len(tiles) THEN c
  ELSE
    LET t == tiles[k]
        overlap_w == Min(p.x2, t.x2) - Max(p.x1, t.x1)
        overlap_h == Min(p.y2, t.y2) - Max(p.y1, t.y1)
        hit ==
          IF Abs(overlap_w) < Abs(overlap_h)
          THEN [MoveItem(c, IF p.x1 < t.x1 THEN -overlap_w ELSE overlap_w, 0)
                  EXCEPT !.player_vel[1] = 0]
          ELSE IF p.y1 < t.y1
          THEN [MoveItem(c, 0, -overlap_h)
                  EXCEPT !.player_vel[2] = 0, !.on_ground = TRUE]
          ELSE [MoveItem(c, 0, overlap_h) EXCEPT !.player_vel[2] = 0]
    IN  TileLoop(IF check_overlap(p, t) THEN hit ELSE c, p, k + 1)

game_over(c) == After(gameover_sound(c), ReturnMs, "return_to_overworld")

return_to_overworld(c) ==
  start_overworld(IF c.lives <= 0
                  THEN [c EXCEPT !.lives = CloneLives, !.score = 0]
                  ELSE c)

update_level(c) ==
  LET accel == IF "Left" \in c.keys THEN -Accel
               ELSE IF "Right" \in c.keys THEN Accel ELSE 0
      a == [c EXCEPT !.player_vel[1] = accel]
      b == IF "space" \in a.keys /\ a.on_ground
           THEN jump_sound([a EXCEPT !.player_vel[2] = JumpStrength])
           ELSE a
      g == [b EXCEPT !.player_vel[2] = @ + CloneGravity]
      m == [MoveItem(g, g.player_vel[1], g.player_vel[2])
              EXCEPT !.on_ground = FALSE]
      t == TileLoop(m, m.player, 1)
      k == IF t.coin /\ check_overlap(t.player, CoinBox)
           THEN [coin_sound(t) EXCEPT !.coin = FALSE,
                                      !.score = @ + CoinPoints]
           ELSE t
  IN  IF check_overlap(k.player, EnemyBox)
      THEN LET h == [k EXCEPT !.lives = @ - 1]
           IN  IF h.lives <= 0 THEN game_over(h)
               ELSE [h EXCEPT !.player = PlayerReset]
      ELSE k

update_game(c) ==
  IF "q" \in c.keys \/ "Q" \in c.keys
  THEN [c EXCEPT !.play_music = FALSE, !.destroyed = TRUE]
  ELSE After(IF c.state = "overworld" THEN update_overworld(c)
             ELSE IF c.state = "level" THEN update_level(c)
             ELSE c,
             UpdateMs, "update_game")

\* lines 87-94: the notes of the theme, <<frequency, ms>>, frequency 0 a rest
theme_notes ==
  << <<659, 150>>, <<659, 150>>, <<0, 100>>,
     <<659, 150>>, <<0, 100>>,
     <<523, 150>>, <<659, 150>>, <<587, 300>>,
     <<0, 150>>,
     <<494, 150>>, <<0, 150>>, <<523, 150>>,
     <<0, 150>>, <<392, 300>>, <<0, 300>> >>

\* The background_music thread between two of its steps: pc is "while" at
\* the loop test of line 96, "for" before the note with index note of a
\* pass, "gap" before the sleep of line 107, "done" when it has returned.
Standing(pc, note) == [pc |-> pc, note |-> note]

\* a loop that starts pass after pass whatever the flag says
background_music_forever(m, play_music) ==
  CASE m.pc = "while" -> Standing("for", 1)
    [] m.pc = "for" ->
         IF ~play_music THEN Standing("gap", 0)
         ELSE IF m.note = Len(theme_notes) THEN Standing("gap", 0)
         ELSE Standing("for", m.note + 1)
    [] m.pc = "gap" -> Standing("while", 0)
    [] OTHER -> m

\* lines 96-107: one step of the thread, which reads the flag play_music
\* and nothing else of the object: the loop test; the test of line 98 and
\* the note or rest of lines 100-106; the sleep after a pass or a break
background_music(m, play_music) ==
  CASE m.pc = "while" ->
         IF play_music THEN Standing("for", 1) ELSE Standing("done", 0)
    [] m.pc = "for" ->
         IF ~play_music THEN Standing("gap", 0)
         ELSE IF m.note = Len(theme_notes) THEN Standing("gap", 0)
         ELSE Standing("for", m.note + 1)
    [] m.pc = "gap" -> Standing("while", 0)
    [] OTHER -> m

\* lines 45-47: the thread is started and has not run yet
NewMusic == Standing("while", 0)

\* ------------------------------------------------------------------------
\* MarioGame with an overworld (src/deltamario5.16.25.-a.x.py), a tkinter
\* program
\* ------------------------------------------------------------------------
\* Canvas coordinates and velocities are in tenths of a pixel, so that the
\* gravity 0.5 is the integer 5.  The object is the record mario; bound
\* tells whether the <KeyPress> and <KeyRelease> bindings are in place.
MarioWidth == 6000
MarioHeight == 4000
MarioGravity == 5
MarioJump == -100
MarioStep == 30
MarioTickMs == 16
RestartMs == 1000

MarioGround == Box(0, MarioHeight - 400, MarioWidth, MarioHeight)
MarioPlayer == Box(500, MarioHeight - 700, 700, MarioHeight - 400)
MarioEnemy == Box(3000, MarioHeight - 600, 3200, MarioHeight - 400)
MarioCoin == Box(5000, MarioHeight - 700, 5200, MarioHeight - 500)
level_positions == <<<<100, 300>>, <<300, 250>>, <<500, 300>>>>

MarioGame_gameover_sound(m) ==
  Beep(Beep(Beep(Beep(m, 523, 80), 415, 80), 349, 80), 261, 80)
move_sound(m) == Beep(m, 392, 40)

\* keys.clear() with the bindings left in place
KeysCleared(m) == [m EXCEPT !.keys = {}]

\* root.unbind of both sequences and keys.clear()
Unbind(m) == [m EXCEPT !.bound = FALSE, !.keys = {}]

move_player(m) ==
  LET moved == "Left" \in m.keys \/ "Right" \in m.keys
      a == [m EXCEPT !.player_vel[1] =
                       IF "Left" \in m.keys THEN -MarioStep
                       ELSE IF "Right" \in m.keys THEN MarioStep ELSE 0]
      b == IF "space" \in a.keys /\ a.on_ground
           THEN jump_sound([a EXCEPT !.player_vel[2] = MarioJump])
           ELSE a
      g == [b EXCEPT !.player_vel[2] = @ + MarioGravity]
      p == MoveBox(g.player, g.player_vel[1], g.player_vel[2])
      d == IF p.y2 >= MarioGround.y1
           THEN [g EXCEPT !.player = MoveBox(p, 0, MarioGround.y1 - p.y2),
                          !.player_vel[2] = 0,
                          !.on_ground = TRUE]
           ELSE [g EXCEPT !.player = p, !.on_ground = FALSE]
  IN  IF moved /\ d.on_ground THEN move_sound(d) ELSE d

overlap(a, b) == a.x1 < b.x2 /\ a.x2 > b.x1 /\ a.y1 < b.y2 /\ a.y2 > b.y1

\* check_collisions: the object after it, and the value it returns
check_collisions(m) ==
  LET k == IF m.coin /\ overlap(m.player, MarioCoin)
           THEN coin_sound([m EXCEPT !.coin = FALSE, !.score = @ + 1])
           ELSE m
  IN  IF overlap(k.player, MarioEnemy)
      THEN <<Unbind(MarioGame_gameover_sound(k)), FALSE>>
      ELSE <<k, TRUE>>

MarioGame_update_level(m) ==
  LET r == check_collisions(move_player(m))
  IN  IF r[2] THEN After(r[1], MarioTickMs, "update_level")
      ELSE After(r[1], RestartMs, "start_overworld")

MarioGame_start_level(m) ==
  MarioGame_update_level([m EXCEPT !.state = "level",
                                   !.player = MarioPlayer,
                                   !.coin = TRUE,
                                   !.player_vel = <<0, 0>>,
                                   !.on_ground = FALSE])

MarioGame_update_overworld(m) ==
  LET left == "Left" \in m.keys /\ m.selected > 0
      a == IF left
           THEN [m EXCEPT !.selected = @ - 1, !.keys = @ \ {"Left"}]
           ELSE m
      right == "Right" \in a.keys /\ a.selected < Len(level_positions) - 1
      b == IF right
           THEN [a EXCEPT !.selected = @ + 1, !.keys = @ \ {"Right"}]
           ELSE a
      d == IF left \/ right THEN move_sound(b) ELSE b
  IN  IF "Return" \in d.keys
      THEN MarioGame_start_level([d EXCEPT !.keys = @ \ {"Return"},
                                           !.current_level = d.selected])
      ELSE After(d, MarioTickMs, "update_overworld")

\* canvas.delete("all") removes the level's items
MarioGame_start_overworld(m) ==
  MarioGame_update_overworld([m EXCEPT !.state = "overworld",
                                       !.bound = TRUE,
                                       !.player = NoBox,
                                       !.coin = FALSE,
                                       !.selected = m.current_level])

\* the callbacks a step registered become pending
Registered(m) == [m EXCEPT !.after = @ \o m.sched, !.sched = <<>>, !.out = <<>>]

\* MarioGame(root): the constructor ends with start_overworld; the window is
\* never destroyed by the program
NewMario ==
  Registered(MarioGame_start_overworld(
    [state |-> "overworld", current_level |-> 0, selected |-> 0,
     score |-> 0, player_vel |-> <<0, 0>>, on_ground |-> FALSE,
     keys |-> {}, bound |-> TRUE, player |-> NoBox, coin |-> FALSE,
     destroyed |-> FALSE, after |-> <<>>, out |-> <<>>, sched |-> <<>>]))

\* ------------------------------------------------------------------------
\* MarioGame with three levels (src/deltamario3.py), a tkinter program
\* ------------------------------------------------------------------------
\* Tenths of a pixel as above; the canvas, the ground, the player's start
\* and the physics are those of the program above (lines 7-8, 15-20,
\* 41-44).  The object is the record mario3: enemy and coin are the boxes
\* of the two canvas items (coin_held tells whether self.coin is an item),
\* texts the messages drawn, failed whether an uncaught error ended a
\* callback.
levels ==
  <<[enemy |-> Box(3000, MarioHeight - 600, 3200, MarioHeight - 400),
     coin |-> Box(5000, MarioHeight - 700, 5200, MarioHeight - 500)],
    [enemy |-> Box(2000, MarioHeight - 600, 2200, MarioHeight - 400),
     coin |-> Box(4000, MarioHeight - 700, 4200, MarioHeight - 500)],
    [enemy |-> Box(1000, MarioHeight - 600, 1200, MarioHeight - 400),
     coin |-> Box(3500, MarioHeight - 700, 3700, MarioHeight - 500)]>>

\* setup_level(index); levels[index] raises IndexError past the last level
setup_level(m, index) ==
  IF index + 1 \in DOMAIN levels
  THEN [m EXCEPT !.enemy = levels[index + 1].enemy,
                 !.coin = levels[index + 1].coin,
                 !.coin_held = TRUE,
                 !.index = index]
  ELSE [m EXCEPT !.failed = TRUE, !.index = index]

\* a next_level that sets up a level whatever the index
next_level_unchecked(m) ==
  LET a == [m EXCEPT !.current_level = @ + 1]
  IN  [setup_level(a, a.current_level)
         EXCEPT !.player = MarioPlayer,
                !.player_vel = <<0, 0>>,
                !.on_ground = FALSE]

next_level(m) ==
  LET a == [m EXCEPT !.current_level = @ + 1]
  IN  IF a.current_level >= Len(levels)
      THEN Unbind([a EXCEPT !.texts = Append(@, "You Win!")])
      ELSE [setup_level(a, a.current_level)
              EXCEPT !.player = MarioPlayer,
                     !.player_vel = <<0, 0>>,
                     !.on_ground = FALSE]

MarioGame3_move_player(m) ==
  LET a == [m EXCEPT !.player_vel[1] =
                       IF "Left" \in m.keys THEN -MarioStep
                       ELSE IF "Right" \in m.keys THEN MarioStep ELSE 0]
      b == IF "space" \in a.keys /\ a.on_ground
           THEN [a EXCEPT !.player_vel[2] = MarioJump]
           ELSE a
      g == [b EXCEPT !.player_vel[2] = @ + MarioGravity]
      p == MoveBox(g.player, g.player_vel[1], g.player_vel[2])
  IN  IF p.y2 >= MarioGround.y1
      THEN [g EXCEPT !.player = MoveBox(p, 0, MarioGround.y1 - p.y2),
                     !.player_vel[2] = 0,
                     !.on_ground = TRUE]
      ELSE [g EXCEPT !.player = p, !.on_ground = FALSE]

\* check_collisions: the object after it, and the value it returns
MarioGame3_check_collisions(m) ==
  LET k == IF m.coin_held /\ overlap(m.player, m.coin)
           THEN next_level([m EXCEPT !.coin_held = FALSE, !.score = @ + 1])
           ELSE m
  IN  IF k.failed THEN <<k, FALSE>>
      ELSE IF overlap(k.player, k.enemy)
      THEN <<Unbind([k EXCEPT !.texts = Append(@, "Game Over")]), FALSE>>
      ELSE <<k, TRUE>>

MarioGame3_update(m) ==
  LET r == MarioGame3_check_collisions(MarioGame3_move_player(m))
  IN  IF r[2] THEN After(r[1], MarioTickMs, "update") ELSE r[1]

\* MarioGame(root): the constructor sets up level 0 and ends with update
NewMario3 ==
  Registered(MarioGame3_update(setup_level(
    [current_level |-> 0, index |-> 0, score |-> 0,
     player_vel |-> <<0, 0>>, on_ground |-> FALSE,
     keys |-> {}, bound |-> TRUE, player |-> MarioPlayer,
     enemy |-> NoBox, coin |-> NoBox, coin_held |-> FALSE,
     texts |-> <<>>, failed |-> FALSE,
     destroyed |-> FALSE, after |-> <<>>, out |-> <<>>, sched |-> <<>>],
    0)))

\* ------------------------------------------------------------------------
\* Space Invaders Lite (src/Space4k.py), a pygame program
\* ------------------------------------------------------------------------
\* Pixels.  The record invaders holds the locals of main: state, score,
\* run, the player's rectangle and bullets, the enemies and their
\* direction; out collects the sounds of a pass of the loop.
WIDTH == 600
HEIGHT == 400
PLAYER_SPEED == 5
BULLET_SPEED == 7
ENEMY_SPEED == 1
ENEMY_DROP == 20
ENEMY_ROWS == 3
ENEMY_COLS == 8
ENEMY_PADDING == 40

\* ShieldGroup.__init__
shields ==
  [i \in 1..4 |-> Rect((WIDTH \div 5) * i - 30, HEIGHT - 80, 60, 20)]

\* EnemyGroup.__init__: row by row
NewEnemies ==
  [k \in 1..(ENEMY_ROWS * ENEMY_COLS) |->
     Rect(ENEMY_PADDING + ((k - 1) % ENEMY_COLS) * ENEMY_PADDING,
          ENEMY_PADDING + ((k - 1) \div ENEMY_COLS) * ENEMY_PADDING,
          30, 20)]

\* Player.move
Player_move(s, dx) ==
  [s EXCEPT !.player.x =
     Max(0, Min(WIDTH - s.player.w, @ + dx * PLAYER_SPEED))]

\* Player.shoot
Player_shoot(s) ==
  PlaySound([s EXCEPT !.bullets =
               Append(@, Rect(CenterX(s.player) - 2, s.player.y - 10, 4, 10))],
            "shoot_sound")

\* the KEYDOWN events of a pass, in order (lines 150-155)
RECURSIVE HandleEvents(_, _)
HandleEvents(s, events) ==
  IF events = <<>> THEN s
  ELSE LET e == Head(events)
           a == IF e = "QUIT" THEN [s EXCEPT !.run = FALSE] ELSE s
           b == IF a.state = "playing" /\ e = "K_SPACE"
                THEN Player_shoot(a) ELSE a
       IN  HandleEvents(b, Tail(events))

\* Player.update_bullets
Player_update_bullets(s) ==
  LET moved == [k \in DOMAIN s.bullets |->
                  [s.bullets[k] EXCEPT !.y = @ - BULLET_SPEED]]
  IN  [s EXCEPT !.bullets =
         SeqFilter(moved, {k \in DOMAIN moved : Bottom(moved[k]) >= 0})]

\* ShieldGroup.check_bullet_collision
check_bullet_collision(s) ==
  [s EXCEPT !.bullets =
     SeqFilter(@, {k \in DOMAIN s.bullets :
                     \A i \in DOMAIN shields :
                       ~ColliderRect(s.bullets[k], shields[i])})]

\* EnemyGroup.update
EnemyGroup_update(s) ==
  LET moved == [k \in DOMAIN s.enemies |->
                  [s.enemies[k] EXCEPT !.x = @ + s.direction * ENEMY_SPEED]]
      move_down == \E k \in DOMAIN moved :
                     Right(moved[k]) >= WIDTH \/ moved[k].x <= 0
  IN  IF move_down
      THEN [s EXCEPT !.direction = -@,
                     !.enemies = [k \in DOMAIN moved |->
                                    [moved[k] EXCEPT !.y = @ + ENEMY_DROP]]]
      ELSE [s EXCEPT !.enemies = moved]

\* a hit that leaves the bullet in play
HitKeepingBullet(s, bullet, enemy) ==
  PlaySound([s EXCEPT !.enemies = RemoveFirst(@, enemy),
                      !.score = @ + 1],
            "hit_sound")

\* lines 174-178: bullet has met enemy
Hit(s, bullet, enemy) ==
  LET a == IF \E k \in DOMAIN s.bullets : s.bullets[k] = bullet
           THEN [s EXCEPT !.bullets = RemoveFirst(@, bullet)]
           ELSE s
  IN  PlaySound([a EXCEPT !.enemies = RemoveFirst(@, enemy),
                          !.score = @ + 1],
                "hit_sound")

\* lines 172-179: the loop over list(enemies.enemies) for one bullet
RECURSIVE EnemyScan(_, _, _, _)
EnemyScan(s, bullet, snapshot, k) ==
  IF k > Len(snapshot) THEN s
  ELSE IF ColliderRect(bullet, snapshot[k])
  THEN Hit(s, bullet, snapshot[k])
  ELSE EnemyScan(s, bullet, snapshot, k + 1)

\* lines 171-179: the loop over list(player.bullets)
RECURSIVE BulletScan(_, _, _)
BulletScan(s, snapshot, k) ==
  IF k > Len(snapshot) THEN s
  ELSE BulletScan(EnemyScan(s, snapshot[k], s.enemies, 1), snapshot, k + 1)

\* lines 181-184
WinCheck(s) ==
  IF Len(s.enemies) = 0
  THEN PlaySound([s EXCEPT !.state = "win"], "win_sound")
  ELSE s

\* a lose check one drop above the bottom
LoseCheckEarly(s) ==
  IF \E k \in DOMAIN s.enemies : Bottom(s.enemies[k]) >= HEIGHT - ENEMY_DROP
  THEN PlaySound([s EXCEPT !.state = "game_over"], "lose_sound")
  ELSE s

\* lines 186-191
LoseCheck(s) ==
  IF \E k \in DOMAIN s.enemies : Bottom(s.enemies[k]) >= HEIGHT
  THEN PlaySound([s EXCEPT !.state = "game_over"], "lose_sound")
  ELSE s

\* lines 149-162: the events of the queue, then the keys held
Inputs(s, events, keys) ==
  LET a == HandleEvents(s, events)
      b == IF a.state = "playing" /\ "K_LEFT" \in keys
           THEN Player_move(a, -1) ELSE a
  IN  IF b.state = "playing" /\ "K_RIGHT" \in keys
      THEN Player_move(b, 1) ELSE b

\* lines 166-168: what a pass does before the bullets meet the enemies
BeforeHits(s) ==
  EnemyGroup_update(check_bullet_collision(Player_update_bullets(s)))

\* lines 147-191: one pass of the loop with the events of the queue and the
\* keys held
MainLoop(s, events, keys) ==
  LET c == Inputs(s, events, keys)
  IN  IF c.state = "playing"
      THEN LET d == BeforeHits(c)
           IN  LoseCheck(WinCheck(BulletScan(d, d.bullets, 1)))
      ELSE c

\* lines 139-145
NewInvaders ==
  [state |-> "playing", score |-> 0, run |-> TRUE,
   player |-> Rect(WIDTH \div 2 - 20, HEIGHT - 40, 40, 20),
   bullets |-> <<>>, enemies |-> NewEnemies, direction |-> 1,
   out |-> <<>>]

\* SMB3Clone(root): the constructor runs start_overworld and the first
\* update_game itself
NewClone ==
  [state |-> "overworld", current_level |-> 0, selected_node |-> 0,
   score |-> 0, lives |-> CloneLives, player_vel |-> <<0, 0>>,
   on_ground |-> FALSE, keys |-> {}, player |-> NoBox, coin |-> FALSE,
   play_music |-> TRUE, destroyed |-> FALSE,
   after |-> <<[cb |-> "update_game", due |-> UpdateMs]>>,
   out |-> <<>>, sched |-> <<>>]


\* the state is the game g, beside a tkinter program just constructed
Is(g) ==
  /\ game_state = g.game_state
  /\ paused = g.paused
  /\ paused_from_state = g.paused_from_state
  /\ current_world_on_map = g.current_world_on_map
  /\ current_node_on_map = g.current_node_on_map
  /\ ow_input_delay_timer = g.ow_input_delay_timer
  /\ current_level_spec = g.current_level_spec
  /\ score = g.score
  /\ lives = g.lives
  /\ time_left = g.time_left
  /\ player_state = g.player_state
  /\ invincibility_timer = g.invincibility_timer
  /\ player_rect = g.player_rect
  /\ player_vel = g.player_vel
  /\ player_on_ground = g.player_on_ground
  /\ camera_offset_x = g.camera_offset_x
  /\ level_width = g.level_width
  /\ platform_rects = g.platform_rects
  /\ block_rects = g.block_rects
  /\ coin_rects = g.coin_rects
  /\ active_enemies = g.active_enemies
  /\ goal_rect = g.goal_rect
  /\ spatial_grid = g.spatial_grid
  /\ running = g.running
  /\ clone = NewClone
  /\ music = NewMusic
  /\ mario = NewMario
  /\ mario3 = NewMario3
  /\ invaders = NewInvaders

Init == Is(Constructed)

\* a pygame.QUIT event
Quit ==
  /\ running = "running"
  /\ Becomes([Game EXCEPT !.running = "quit"])

\* a pygame.KEYDOWN event
KeyDown(key) ==
  /\ running = "running"
  /\ KeyExplored(key)
  /\ Becomes(HandleKeyDown(Game, key))

\* the update of one frame with the pressed keys and the frame time
Frame(keys, dt) ==
  /\ running = "running"
  /\ FrameExplored(keys, dt)
  /\ Becomes(UpdateFrame(Game, keys, dt))

Next ==
  \/ Quit
  \/ \E key \in {"ESCAPE", "P", "RETURN"} : KeyDown(key)
  \/ \E keys \in KeyChoices, dt \in DtChoices : Frame(keys, dt)

Spec == Init /\ [][Next]_vars

\* ------------------------------------------------------------------------
\* Level ticks from drawn situations
\* ------------------------------------------------------------------------
\* A second specification for what one tick does to a level whatever the
\* situation: it starts in a level just loaded, with the player either at
\* the start position or drawn from a grid of positions and vertical
\* velocities, and runs a few level ticks.
TickLevels == {<<0, 1>>, <<0, 3>>, <<0, 4>>}
TickXs == {56, 150, 160, 185, 632}
TickYs == {150, 200, 260, 344}
TickVys == {0, 110, -500}

\* frame lengths of the two stalls that carry the player past the right
\* end of a level and back onto the seam of two platforms
OverrunMs == 5000
BackMs == 3070
TickDts == {FrameMs, OverrunMs, BackMs}

Situation(id, x, y, vy) ==
  [LoadLevelFromSpec(Constructed, id) EXCEPT
     !.player_rect.x = x, !.player_rect.y = y, !.player_vel.y = vy, !.out = <<>>]

TickExplored(keys, dt) ==
  \/ /\ dt = FrameMs
     /\ keys \in {{}, {"LEFT"}, {"RIGHT"}, {"SPACE"}}
     /\ LevelElapsed % 1000 < MaxTicks * FrameMs
  \/ /\ <<keys, dt>> = <<{"RIGHT"}, OverrunMs>>
     /\ LevelElapsed = 0
  \/ /\ <<keys, dt>> = <<{"LEFT"}, BackMs>>
     /\ LevelElapsed > OverrunMs
     /\ LevelElapsed < OverrunMs + 1000

TickInit ==
  \E id \in TickLevels, x \in TickXs, y \in TickYs, vy \in TickVys :
    Is(Situation(id, x, y, vy))

\* one pass of the loop in a level that is not paused (lines 835-838)
Tick(keys, dt) ==
  /\ running = "running"
  /\ game_state = "level"
  /\ ~paused
  /\ TickExplored(keys, dt)
  /\ Becomes(UpdateFrame(Game, keys, dt))

TickNext == \E keys \in KeyChoices, dt \in TickDts : Tick(keys, dt)

TickSpec == TickInit /\ [][TickNext]_vars

\* ------------------------------------------------------------------------
\* The tkinter program's event loop
\* ------------------------------------------------------------------------
\* the pending callback that runs next: the earliest due, and among equals
\* the one registered first
NextTimer(c) ==
  CHOOSE i \in DOMAIN c.after :
    \A j \in DOMAIN c.after :
      \/ c.after[i].due < c.after[j].due
      \/ c.after[i].due = c.after[j].due /\ i <= j

RECURSIVE Duration(_)
\* winsound.Beep blocks for the length of the beep
Duration(out) ==
  IF out = <<>> THEN 0 ELSE Head(out).dur + Duration(Tail(out))

RunCallback(c, cb) ==
  CASE cb = "update_game" -> update_game(c)
    [] cb = "return_to_overworld" -> return_to_overworld(c)
    [] cb = "update_level" -> MarioGame_update_level(c)
    [] cb = "update_overworld" -> MarioGame_update_overworld(c)
    [] cb = "start_overworld" -> MarioGame_start_overworld(c)
    [] cb = "update" -> MarioGame3_update(c)

\* one turn of root.mainloop on a timer: wait for the next callback, run
\* it, and register what it scheduled; root.destroy drops what is pending
Fire(c) ==
  LET i == NextTimer(c)
      wait == Max(c.after[i].due, 0)
      rest == [j \in 1..(Len(c.after) - 1) |->
                 [c.after[IF j < i THEN j ELSE j + 1]
                    EXCEPT !.due = @ - wait]]
      r == RunCallback([c EXCEPT !.after = rest], c.after[i].cb)
      spent == Duration(r.out)
  IN  [r EXCEPT !.sched = <<>>,
                !.after = IF r.destroyed THEN <<>>
                          ELSE [j \in DOMAIN rest |->
                                  [rest[j] EXCEPT !.due = @ - spent]]
                               \o r.sched]

Keysyms == {"Left", "Right", "Return", "space", "q"}

\* the part of the tkinter program's behaviour that is explored: every key
\* on the overworld; in a level, Right and q, and no tick before the other
\* keys held on entry are released; no key event while a return to the
\* overworld is pending
LevelKeysyms == {"Right", "q"}
ReturnPending ==
  \E i \in DOMAIN clone.after : clone.after[i].cb = "return_to_overworld"
KeysymExplored(keysym) ==
  /\ ~ReturnPending
  /\ \/ clone.state = "overworld"
     \/ keysym \in LevelKeysyms
TimerExplored ==
  \/ clone.state = "overworld"
  \/ clone.keys \subseteq LevelKeysyms

\* the step's result c becomes the next state of the tkinter program
CloneBecomes(c) ==
  /\ clone' = [c EXCEPT !.out = <<>>]
  /\ UNCHANGED <<gamevars, music, mario, mario3, invaders>>

\* a <KeyPress> event
KeyPress(keysym) ==
  /\ ~clone.destroyed
  /\ KeysymExplored(keysym)
  /\ CloneBecomes(key_down(clone, keysym))

\* a <KeyRelease> event
KeyRelease(keysym) ==
  /\ ~clone.destroyed
  /\ ~ReturnPending
  /\ CloneBecomes(key_up(clone, keysym))

\* the next timer callback runs
Timer ==
  /\ ~clone.destroyed
  /\ clone.after # <<>>
  /\ TimerExplored
  /\ CloneBecomes(Fire(clone))

CloneNext ==
  \/ \E keysym \in Keysyms : KeyPress(keysym)
  \/ \E keysym \in Keysyms : KeyRelease(keysym)
  \/ Timer

CloneSpec == Init /\ [][CloneNext]_vars

\* a step of the background_music thread
MusicStep ==
  /\ music.pc # "done"
  /\ music' = background_music(music, clone.play_music)
  /\ UNCHANGED <<gamevars, clone, mario, mario3, invaders>>

\* lines 376-379: root.mainloop returns after root.destroy and the
\* interpreter exits, which ends a daemon thread wherever it stands
InterpreterExit ==
  /\ clone.destroyed
  /\ music.pc # "done"
  /\ music' = Standing("done", 0)
  /\ UNCHANGED <<gamevars, clone, mario, mario3, invaders>>

\* The thread beside the main loop on the overworld, with the keys Right
\* and q.
MusicKeysyms == {"Right", "q"}

MusicNext ==
  \/ MusicStep
  \/ InterpreterExit
  \/ \E keysym \in MusicKeysyms : clone.state = "overworld" /\ KeyPress(keysym)
  \/ \E keysym \in MusicKeysyms : clone.state = "overworld" /\ KeyRelease(keysym)
  \/ clone.state = "overworld" /\ Timer

\* the thread is scheduled again and again until it returns
MusicSpec == Init /\ [][MusicNext]_vars /\ WF_vars(MusicStep)

\* ------------------------------------------------------------------------
\* The event loop of MarioGame with an overworld
\* ------------------------------------------------------------------------
MarioKeysyms == {"Left", "Right", "Return", "space"}

\* the part of its behaviour that is explored: every key on the overworld,
\* a level entered only with fewer than MaxCoins coins collected; in a
\* level, key events on the ground only: Right, space where a jump clears
\* the enemy, and Left once the coin is taken; space is released in the
\* air; a level tick only with the player inside the canvas and the keys
\* of a walk or a jump held
MaxCoins == 2
JumpLo == 2300
JumpHi == 2400
MarioKeyExplored(keysym) ==
  IF mario.state = "overworld"
  THEN keysym = "Return" => mario.score < MaxCoins
  ELSE /\ mario.on_ground
       /\ \/ keysym = "Right" /\ "Left" \notin mario.keys
          \/ /\ keysym = "space"
             /\ mario.player.x1 >= JumpLo
             /\ mario.player.x1 <= JumpHi
          \/ keysym = "Left" /\ ~mario.coin /\ mario.keys = {}
MarioReleaseExplored(keysym) ==
  mario.state = "level" => (mario.on_ground <=> keysym # "space")
MarioTimerExplored ==
  mario.state = "level"
    => /\ mario.player.x1 >= 0
       /\ mario.player.x2 <= MarioWidth
       /\ mario.keys \in {{}, {"Right"}, {"Right", "space"}, {"Left"}}

\* the step's result m becomes the next state of the program
MarioBecomes(m) ==
  /\ mario' = [m EXCEPT !.out = <<>>]
  /\ UNCHANGED <<gamevars, clone, music, mario3, invaders>>

\* a <KeyPress> event: key_down runs if it is bound
MarioKeyPress(keysym) ==
  /\ MarioKeyExplored(keysym)
  /\ MarioBecomes(IF mario.bound THEN key_down(mario, keysym) ELSE mario)

\* a <KeyRelease> event
MarioKeyRelease(keysym) ==
  /\ MarioReleaseExplored(keysym)
  /\ MarioBecomes(IF mario.bound THEN key_up(mario, keysym) ELSE mario)

\* the next timer callback runs
MarioTimer ==
  /\ mario.after # <<>>
  /\ MarioTimerExplored
  /\ MarioBecomes(Fire(mario))

MarioNext ==
  \/ \E keysym \in MarioKeysyms : MarioKeyPress(keysym)
  \/ \E keysym \in MarioKeysyms : MarioKeyRelease(keysym)
  \/ MarioTimer

MarioSpec == Init /\ [][MarioNext]_vars

\* ------------------------------------------------------------------------
\* The event loop of MarioGame with three levels
\* ------------------------------------------------------------------------
\* the part of its behaviour that is explored: key events on the ground
\* only: Right, space where a jump clears the level's enemy (from LeadHi to
\* LeadLo before it), Left with no other key held; space is released in the
\* air; a tick only with the player inside the canvas and the keys of a
\* walk or a jump held
LeadLo == 300
LeadHi == 400
Mario3KeyExplored(keysym) ==
  /\ mario3.on_ground
  /\ \/ keysym = "Right" /\ "Left" \notin mario3.keys
     \/ /\ keysym = "space"
        /\ mario3.player.x1 >= mario3.enemy.x1 - LeadHi
        /\ mario3.player.x1 <= mario3.enemy.x1 - LeadLo
     \/ keysym = "Left" /\ mario3.keys = {}
Mario3ReleaseExplored(keysym) ==
  mario3.on_ground <=> keysym # "space"
Mario3TimerExplored ==
  /\ mario3.player.x1 >= 0
  /\ mario3.player.x2 <= MarioWidth
  /\ mario3.keys \in {{}, {"Right"}, {"Right", "space"}, {"Left"}}

\* the step's result m becomes the next state of the program
Mario3Becomes(m) ==
  /\ mario3' = [m EXCEPT !.out = <<>>]
  /\ UNCHANGED <<gamevars, clone, music, mario, invaders>>

\* a <KeyPress> event: key_down runs if it is bound
Mario3KeyPress(keysym) ==
  /\ Mario3KeyExplored(keysym)
  /\ Mario3Becomes(IF mario3.bound THEN key_down(mario3, keysym) ELSE mario3)

\* a <KeyRelease> event
Mario3KeyRelease(keysym) ==
  /\ Mario3ReleaseExplored(keysym)
  /\ Mario3Becomes(IF mario3.bound THEN key_up(mario3, keysym) ELSE mario3)

\* the next timer callback runs
Mario3Timer ==
  /\ mario3.after # <<>>
  /\ Mario3TimerExplored
  /\ Mario3Becomes(Fire(mario3))

Mario3Next ==
  \/ \E keysym \in {"Left", "Right", "space"} : Mario3KeyPress(keysym)
  \/ \E keysym \in {"Left", "Right", "space"} : Mario3KeyRelease(keysym)
  \/ Mario3Timer

Mario3Spec == Init /\ [][Mario3Next]_vars

\* ------------------------------------------------------------------------
\* The loop of main in Space Invaders Lite
\* ------------------------------------------------------------------------
\* the event queues and the sets of held keys of a pass
InvaderEvents ==
  {<<>>, <<"K_SPACE">>, <<"K_SPACE", "K_SPACE">>, <<"QUIT">>}
InvaderKeys == SUBSET {"K_LEFT", "K_RIGHT"}

\* the player steers only while the first enemy is within MoveTicks of its
\* start and nothing has been fired
MoveTicks == 1
Opening ==
  /\ invaders.score = 0
  /\ invaders.bullets = <<>>
  /\ invaders.enemies[1].y = ENEMY_PADDING
  /\ invaders.direction = 1
  /\ invaders.enemies[1].x <= ENEMY_PADDING + MoveTicks

\* the passes explored: while playing, a player who has not scored fires
\* only in the opening, and one who has scored fires whenever no bullet is
\* in flight; every input is explored once the game is over
PassExplored(events, keys) ==
  \/ invaders.state # "playing"
  \/ /\ events = <<"QUIT">>
     /\ keys = {}
  \/ /\ events = <<>>
     /\ keys # {} => Opening
     /\ invaders.score > 0 => invaders.bullets # <<>>
  \/ /\ events = <<"K_SPACE">>
     /\ keys = {}
     /\ invaders.bullets = <<>>
     /\ Opening \/ invaders.score > 0
  \/ /\ events = <<"K_SPACE", "K_SPACE">>
     /\ keys = {}
     /\ invaders = NewInvaders

InvadersBecomes(s) ==
  /\ invaders' = s
  /\ UNCHANGED <<gamevars, clone, music, mario, mario3>>

\* one pass of the while loop of main
InvadersPass ==
  /\ invaders.run
  /\ \E events \in InvaderEvents, keys \in InvaderKeys :
       /\ PassExplored(events, keys)
       /\ InvadersBecomes(MainLoop([invaders EXCEPT !.out = <<>>], events, keys))

InvadersNext == InvadersPass

InvadersSpec == Init /\ [][InvadersNext]_vars

\* ------------------------------------------------------------------------
\* Vocabulary of the properties
\* ------------------------------------------------------------------------
Count(seq, c) == Cardinality({k \in DOMAIN seq : seq[k] = c})

\* what the frame update emits in the current state
Emitted(keys, dt) == UpdateFrame(Game, keys, dt).out

AnyFrame == \E keys \in KeyChoices, dt \in DtChoices : Frame(keys, dt)

Session ==
  <<score, lives, time_left, current_world_on_map, current_node_on_map,
    player_rect, player_vel, coin_rects, active_enemies>>

StartRect == Rect(TILE * SCALE * 2 - (TILE \div 2),
                  H - (TILE * SCALE) - (TILE + (TILE \div 2)),
                  TILE, TILE + (TILE \div 2))

\* ------------------------------------------------------------------------
\* C1: pause / resume round trip.  A press of P in mode M (overworld or
\* level) pauses, remembers M and changes no session field; a frame while
\* paused changes nothing; the next press of P resumes to the remembered
\* mode and changes no session field.
\* ------------------------------------------------------------------------
C1_PauseRoundTrip ==
  [][/\ (KeyDown("P") /\ ~paused /\ game_state \in {"overworld", "level"})
          => /\ paused'
             /\ paused_from_state' = game_state
             /\ game_state' = game_state
             /\ Session' = Session
     /\ (paused /\ AnyFrame)
          => UNCHANGED <<Session, game_state, paused, paused_from_state>>
     /\ (KeyDown("P") /\ paused)
          => /\ ~paused'
             /\ game_state' = paused_from_state
             /\ Session' = Session]_vars

\* a level resumed in mid-play after a pause taken in a level
C1_Witness ==
  /\ ~paused
  /\ game_state = "level"
  /\ paused_from_state = "level"
  /\ LevelElapsed > 0
  /\ \E k \in DOMAIN active_enemies : active_enemies[k].state = "stomped"

C3_GameOverExitResets ==
  [][(game_state = "game_over" /\ game_state' = "overworld")
       => (score' = 0 /\ lives' = StartLives)]_vars

\* ------------------------------------------------------------------------
\* C4: score and lives are unchanged by a pause or a resume, by a frame
\* spent paused, and by Escape from a level to the overworld; a tick that
\* reloads the level for a respawn changes them only by the tick's own
\* deaths, stomps and coins; and the only step that lowers the score or
\* raises the lives is Enter in game_over, which sets them to 0 and 3.
\* ------------------------------------------------------------------------
C4_ScoreLivesPersist ==
  [][/\ KeyDown("P") => UNCHANGED <<score, lives>>
     /\ (paused /\ AnyFrame) => UNCHANGED <<score, lives>>
     /\ (KeyDown("ESCAPE") /\ game_state = "level")
          => (UNCHANGED <<score, lives>> /\ game_state' = "overworld")
     /\ (game_state = "level" /\ ~paused)
          => \A keys \in KeyChoices, dt \in DtChoices :
               LET cues == Emitted(keys, dt)
               IN (/\ FrameExplored(keys, dt)
                   /\ Count(cues, "Loaded Level") > 0
                   /\ Frame(keys, dt)
                   /\ game_state' = "level")
                    => /\ lives' = lives - Count(cues, "BEEP_HURT")
                       /\ score' = score + StompScore * Count(cues, "BEEP_STOMP")
                                         + CoinScore * Count(cues, "BEEP_COIN")
     /\ (score' < score \/ lives' > lives)
          => /\ game_state = "game_over"
             /\ KeyDown("RETURN")
             /\ score' = 0
             /\ lives' = StartLives]_vars

\* back on the overworld by Escape from a level that was paused and in
\* which a life was lost and the level reloaded
C4_Witness ==
  /\ game_state = "overworld"
  /\ lives = StartLives - 1
  /\ score = 0
  /\ current_level_spec # NoSpec
  /\ paused_from_state = "level"

\* ------------------------------------------------------------------------
\* C5: lives is never negative in a reachable state.
\* ------------------------------------------------------------------------
C5_LivesNonNegative == lives >= 0

\* ------------------------------------------------------------------------
\* C6: after a tick with a death that leaves lives > 0 the level is loaded,
\* the player stands at the start position and the invincibility timer is
\* greater than 0.
\* ------------------------------------------------------------------------
C6_RespawnGrace ==
  [][(game_state = "level" /\ lives' < lives /\ lives' > 0)
       => /\ game_state' = "level"
          /\ player_rect' = StartRect
          /\ invincibility_timer' > 0]_vars

\* ------------------------------------------------------------------------
\* C7: respawn idempotence.  In every state of a level, loading its
\* definition again gives the platforms, blocks, coins, enemies and goal of
\* the first load, the same score and lives, the player at the start
\* position with zero velocity and on_ground false; and a tick that reloads
\* the level for a respawn ends with exactly that geometry and player.
\* ------------------------------------------------------------------------
Geometry(g) ==
  <<g.platform_rects, g.block_rects, g.coin_rects, g.active_enemies,
    g.goal_rect>>

FirstLoad(id) == LoadLevelFromSpec(Constructed, id)

C7_ReloadIsFirstLoad ==
  (game_state = "level" /\ current_level_spec # NoSpec)
    => LET again == LoadLevelFromSpec(Game, current_level_spec)
       IN /\ Geometry(again) = Geometry(FirstLoad(current_level_spec))
          /\ again.score = score
          /\ again.lives = lives
          /\ again.player_rect = StartRect
          /\ again.player_vel = [x |-> 0, y |-> 0]
          /\ again.player_on_ground = FALSE

C7_RespawnIdempotent ==
  /\ []C7_ReloadIsFirstLoad
  /\ [][(game_state = "level" /\ ~paused)
          => \A keys \in KeyChoices, dt \in DtChoices :
               (/\ FrameExplored(keys, dt)
                /\ Count(Emitted(keys, dt), "Loaded Level") > 0
                /\ Frame(keys, dt)
                /\ running' = "running")
                 => /\ Geometry(Game)' = Geometry(FirstLoad(current_level_spec))
                    /\ player_rect' = StartRect
                    /\ player_vel' = [x |-> 0, y |-> 0]
                    /\ player_on_ground' = FALSE]_vars

\* a level reloaded for a respawn: a life is gone, the frame's time has
\* passed, yet the enemies stand where the definition puts them
C7_Witness ==
  /\ game_state = "level"
  /\ lives < StartLives
  /\ time_left = LevelTime - FrameMs
  /\ Geometry(Game) = Geometry(FirstLoad(current_level_spec))
  /\ active_enemies # <<>>
  /\ player_rect = StartRect /\ player_vel = [x |-> 0, y |-> 0]

\* ------------------------------------------------------------------------
\* Points inside a level tick
\* ------------------------------------------------------------------------
\* the game when the enemy loop of the tick starts (after line 521)
AtEnemyLoop(keys, dt) == ScrollCamera(MovePlayer(ApplyInput(Game, keys, dt)))

\* the game at the goal check of the tick (line 556)
AtGoalCheck(keys, dt) == CollectCoins(UpdateEnemies(AtEnemyLoop(keys, dt), dt))

\* the enemy loop of the tick after its first n iterations
EnemiesDone(keys, dt, n) ==
  LET g == AtEnemyLoop(keys, dt)
  IN EnemyLoop([g |-> g, shared |-> TRUE], SubSeq(g.active_enemies, 1, n), 1, dt)

WholeSeconds(ms) == IF ms < 0 THEN 0 ELSE ms \div 1000

\* ------------------------------------------------------------------------
\* C8: in a level tick whose goal check finds the player overlapping the
\* goal rectangle, the mode becomes victory and the score becomes the score
\* held at the goal check plus floor(time_left) * 10, time_left in seconds
\* and taken as 0 when negative.
\* ------------------------------------------------------------------------
C8_GoalBonus ==
  [][(game_state = "level" /\ ~paused)
       => \A keys \in KeyChoices, dt \in DtChoices :
            LET c == AtGoalCheck(keys, dt)
            IN (/\ FrameExplored(keys, dt)
                /\ GoalReached(c)
                /\ Frame(keys, dt)
                /\ running' = "running")
                 => /\ game_state' = "victory"
                    /\ score' = c.score + WholeSeconds(c.time_left) * 10
                    /\ c.score = score
                                   + StompScore * Count(c.out, "BEEP_STOMP")
                                   + CoinScore * Count(c.out, "BEEP_COIN")]_vars

\* victory reached one frame after the load: 299.984 s left, bonus 2990
C8_Witness ==
  /\ game_state = "victory"
  /\ time_left = LevelTime - FrameMs
  /\ score = 2990
  /\ ColliderRect(player_rect, goal_rect)

\* ------------------------------------------------------------------------
\* C9: in a level tick whose goal check finds the player overlapping the
\* goal, nothing follows the transition to victory: time_left, the
\* invincibility timer and lives keep the values they had at the goal
\* check, and no hurt cue and no reload come after it.
\* ------------------------------------------------------------------------
C9_GoalShortCircuits ==
  [][(game_state = "level" /\ ~paused)
       => \A keys \in KeyChoices, dt \in DtChoices :
            LET c == AtGoalCheck(keys, dt)
            IN (/\ FrameExplored(keys, dt)
                /\ GoalReached(c)
                /\ Frame(keys, dt)
                /\ running' = "running")
                 => /\ game_state' = "victory"
                    /\ time_left' = c.time_left
                    /\ invincibility_timer' = c.invincibility_timer
                    /\ lives' = c.lives
                    /\ Emitted(keys, dt) = c.out \o <<"BEEP_VICTORY">>]_vars

\* victory with the clock still at the value of the load: the goal tick
\* was the first tick of the level and did not touch the clock
C9_Witness ==
  /\ game_state = "victory"
  /\ time_left = LevelTime
  /\ lives = StartLives
  /\ ColliderRect(player_rect, goal_rect)

\* ------------------------------------------------------------------------
\* C10: stomp.  For each walking enemy of a level tick, with the player and
\* the walked enemy as they are at that enemy's contact check: the enemy is
\* marked stomped by its iteration only if the player overlaps it with
\* vertical velocity > 0 and bottom above the enemy's vertical centre; and
\* if so, the iteration marks it stomped, adds 100 to the score, leaves the
\* player's vertical velocity negative and emits no hurt cue.  In a tick
\* without reload the enemies stomped afterwards are exactly those.
\* ------------------------------------------------------------------------
StompedIn(list, id) ==
  \E j \in DOMAIN list : list[j].id = id /\ list[j].state = "stomped"

StompContact(g, walked) ==
  /\ ColliderRect(g.player_rect, walked.rect)
  /\ g.player_vel.y > 0
  /\ Bottom(g.player_rect) < CenterY(walked.rect)

C10_StompRule ==
  [][(game_state = "level" /\ ~paused)
       => \A keys \in KeyChoices, dt \in DtChoices :
            (FrameExplored(keys, dt) /\ Frame(keys, dt))
              => LET copy == AtEnemyLoop(keys, dt).active_enemies
                 IN \A k \in DOMAIN copy :
                      LET b == EnemiesDone(keys, dt, k - 1)
                          a == EnemiesDone(keys, dt, k)
                          walked == WalkEnemy(copy[k], dt, b.g.level_width)
                      IN (copy[k].state = "walking" /\ b.g.running = "running")
                           => /\ StompedIn(a.g.active_enemies, copy[k].id)
                                  => StompContact(b.g, walked)
                              /\ StompContact(b.g, walked)
                                  => /\ b.shared
                                       => StompedIn(a.g.active_enemies, copy[k].id)
                                     /\ a.g.score = b.g.score + 100
                                     /\ a.g.player_vel.y < 0
                                     /\ Count(a.g.out, "BEEP_HURT")
                                          = Count(b.g.out, "BEEP_HURT")
                              /\ (Count(Emitted(keys, dt), "Loaded Level") = 0
                                  /\ running' = "running")
                                   => (StompedIn(active_enemies', copy[k].id)
                                         <=> StompContact(b.g, walked))]_vars

\* the tick of a stomp is over: an enemy is marked stomped, the player
\* bounces upward and holds the 100 points
C10_Witness ==
  /\ game_state = "level"
  /\ \E k \in DOMAIN active_enemies : active_enemies[k].state = "stomped"
  /\ player_vel.y < 0
  /\ score = StompScore

\* ------------------------------------------------------------------------
\* C11: coin count.  In every level tick the coin loop removes exactly the
\* coins the player overlaps, one removal and 50 points and one coin cue
\* per overlapped coin, two coins of identical bounds counting as two; in a
\* tick without reload the number of coins left is the number before minus
\* the pickups, never below 0, and the score grows by 50 per pickup on top
\* of the tick's stomps.
\* ------------------------------------------------------------------------
C11_CoinCount ==
  [][(game_state = "level" /\ ~paused)
       => \A keys \in KeyChoices, dt \in TickDts :
            (TickExplored(keys, dt) /\ Tick(keys, dt) /\ running' = "running")
              => LET b == UpdateEnemies(AtEnemyLoop(keys, dt), dt)
                     a == CollectCoins(b)
                     hit == {k \in DOMAIN b.coin_rects :
                               ColliderRect(b.player_rect, b.coin_rects[k])}
                     n == Cardinality(hit)
                 IN /\ a.coin_rects = SeqFilter(b.coin_rects, (DOMAIN b.coin_rects) \ hit)
                    /\ Len(a.coin_rects) = Len(b.coin_rects) - n
                    /\ a.score = b.score + 50 * n
                    /\ Count(a.out, "BEEP_COIN") = n
                    /\ Len(coin_rects') >= 0
                    /\ Count(Emitted(keys, dt), "Loaded Level") = 0
                         => /\ Len(coin_rects') = Len(coin_rects) - n
                            /\ game_state' = "level"
                                 => score' = score + 50 * n
                                      + StompScore * Count(Emitted(keys, dt), "BEEP_STOMP")]_vars

\* both coins of identical bounds of the level are gone, and only they:
\* two coins fewer, 100 points
C11_Witness ==
  /\ game_state = "level"
  /\ current_level_spec = <<0, 4>>
  /\ Len(coin_rects) = Len(PlaceholderTwins.coins) - 2
  /\ \A k \in DOMAIN coin_rects : coin_rects[k] # CoinRect(<<5, 5>>)
  /\ score = 2 * CoinScore

\* ------------------------------------------------------------------------
\* C12: no residual penetration.  In every level tick the player's
\* rectangle overlaps no platform and no block after the horizontal
\* resolution pass, and none after the vertical resolution pass.
\* ------------------------------------------------------------------------
\* the game after line 512 of the tick
AfterHorizontalPass(keys, dt) ==
  LET g == ApplyInput(Game, keys, dt)
  IN HandleLevelCollisions(
       [g EXCEPT !.player_rect.x = AddFloat(@, g.player_vel.x)], "horizontal")

\* the game after line 516 of the tick
AfterVerticalPass(keys, dt) == MovePlayer(ApplyInput(Game, keys, dt))

Penetrated(g) ==
  {r \in {g.platform_rects[k] : k \in DOMAIN g.platform_rects}
           \cup {g.block_rects[k] : k \in DOMAIN g.block_rects} :
     ColliderRect(g.player_rect, r)}

C12_NoResidualPenetration ==
  [][(game_state = "level" /\ ~paused)
       => \A keys \in KeyChoices, dt \in TickDts :
            (TickExplored(keys, dt) /\ Tick(keys, dt))
              => /\ Penetrated(AfterHorizontalPass(keys, dt)) = {}
                 /\ Penetrated(AfterVerticalPass(keys, dt)) = {}]_vars

\* ------------------------------------------------------------------------
\* C13: landing.  When the vertical move of a level tick is downward
\* (velocity.y > 0) and leaves the player overlapping platforms or blocks,
\* the vertical pass ends with the player's bottom on the top of each of
\* them, on_ground true and velocity.y = 0; and the tick ends so unless a
\* stomp or a reload follows in it.
\* ------------------------------------------------------------------------
\* the game after line 515 of the tick: moved down or up, not yet resolved
AfterVerticalMove(keys, dt) ==
  LET g == AfterHorizontalPass(keys, dt)
  IN [g EXCEPT !.player_rect.y = AddFloat(@, g.player_vel.y),
               !.player_on_ground = FALSE]

C13_Landing ==
  [][(game_state = "level" /\ ~paused)
       => \A keys \in KeyChoices, dt \in TickDts :
            LET m == AfterVerticalMove(keys, dt)
                a == AfterVerticalPass(keys, dt)
            IN (/\ TickExplored(keys, dt)
                /\ m.player_vel.y > 0
                /\ Penetrated(m) # {}
                /\ Tick(keys, dt))
                 => /\ \A r \in Penetrated(m) : Bottom(a.player_rect) = r.y
                    /\ a.player_on_ground
                    /\ a.player_vel.y = 0
                    /\ (/\ Count(Emitted(keys, dt), "Loaded Level") = 0
                        /\ Count(Emitted(keys, dt), "BEEP_STOMP") = 0
                        /\ running' = "running")
                         => /\ player_rect' = a.player_rect
                            /\ player_on_ground'
                            /\ player_vel'.y = 0]_vars

\* landed across the seam of two platforms of level 1-2: the player stands
\* on both, at rest
C13_Witness ==
  /\ game_state = "level"
  /\ current_level_spec = <<0, 1>>
  /\ player_rect.x = 632
  /\ Bottom(player_rect) = H - 32
  /\ player_on_ground
  /\ player_vel.y = 0

\* ------------------------------------------------------------------------
\* C14: overworld cursor.  A Left or Right input that takes effect moves the
\* node cursor by one index clamped to the world's range: Left at index 0
\* leaves it at 0 and Right at the last index leaves it at the last index.
\* ------------------------------------------------------------------------
C14_CursorClamped ==
  [][(game_state = "overworld" /\ ~paused)
       => \A keys \in {{"LEFT"}, {"RIGHT"}}, dt \in DtChoices :
            (/\ FrameExplored(keys, dt)
             /\ ow_input_delay_timer - dt <= 0
             /\ Frame(keys, dt))
              => LET last == NumNodes(current_world_on_map) - 1
                 IN current_node_on_map' =
                      IF keys = {"LEFT"}
                      THEN Max(0, current_node_on_map - 1)
                      ELSE Min(last, current_node_on_map + 1)]_vars

\* ------------------------------------------------------------------------
\* C15  (CloneSpec)
\* ------------------------------------------------------------------------
MoveSound == [freq |-> 392, dur |-> 40]

\* the next callback is an update of the overworld
OverworldTickDue ==
  /\ ~clone.destroyed
  /\ clone.after # <<>>
  /\ clone.after[NextTimer(clone)].cb = "update_game"
  /\ clone.state = "overworld"
  /\ clone.keys \cap {"q", "Q"} = {}

\* no beep of the tick that is due is the move sound
NoMoveSound == \A k \in DOMAIN Fire(clone).out : Fire(clone).out[k] # MoveSound

\* C15: in the tkinter program the selected node is always one of the five
\* nodes 0..4; an overworld tick with Left held at node 0, or with Right
\* held at node 4, leaves the selected node where it is and plays no move
\* sound.
C15_SelectedNodeClamped ==
  /\ clone.selected_node \in 0..(NodeCount - 1)
  /\ (/\ OverworldTickDue
      /\ clone.selected_node = 0
      /\ "Left" \in clone.keys
      /\ "Right" \notin clone.keys)
       => (Fire(clone).selected_node = 0 /\ NoMoveSound)
  /\ (/\ OverworldTickDue
      /\ clone.selected_node = NodeCount - 1
      /\ "Right" \in clone.keys
      /\ "Left" \notin clone.keys)
       => (Fire(clone).selected_node = NodeCount - 1 /\ NoMoveSound)

\* Right is held at the last node, reached again after a game over in its
\* level, and a tick has left it there
C15_Witness ==
  /\ OverworldTickDue
  /\ clone.selected_node = NodeCount - 1
  /\ clone.current_level = NodeCount - 1
  /\ "Right" \in clone.keys
  /\ Fire(clone).selected_node = clone.selected_node
  /\ Fire(clone).out = <<>>

\* ------------------------------------------------------------------------
\* C16
\* ------------------------------------------------------------------------
\* a navigation action takes effect in the frame that leads to r: the
\* cursor or the world changes, a level is entered, or the move or select
\* cue is played
NavigationEffect(r) ==
  \/ r.current_node_on_map # current_node_on_map
  \/ r.current_world_on_map # current_world_on_map
  \/ r.game_state # "overworld"
  \/ Count(r.out, "BEEP_OW_MOVE") > 0
  \/ Count(r.out, "BEEP_OW_SELECT") > 0

\* what an overworld frame does to the input timer
CooldownKept(keys, dt) ==
  LET r == UpdateFrame(Game, keys, dt)
  IN  IF NavigationEffect(r)
      THEN /\ ow_input_delay_timer - dt <= 0
           /\ r.ow_input_delay_timer = OwInputCooldown
      ELSE r.ow_input_delay_timer = ow_input_delay_timer - dt

\* C16: the overworld input cooldown.  The input timer holds what is left of
\* the 0.18 s cooldown: a frame in which a navigation action takes effect
\* leaves it at the full cooldown; any other overworld frame takes exactly
\* its own duration off it, and nothing else changes it; and while more than
\* the frame's duration is left on it, the frame has no navigation effect
\* and plays no move sound, whatever key is held.  So between two
\* navigation effects lie overworld frames of at least 0.18 s in total.
C16_Cooldown ==
  /\ [](game_state = "overworld" /\ ~paused /\ running = "running"
          => \A keys \in KeyChoices, dt \in DtChoices :
               FrameExplored(keys, dt) => CooldownKept(keys, dt))
  /\ [][(game_state # "overworld" \/ paused \/ Quit
          \/ \E key \in {"ESCAPE", "P", "RETURN"} : KeyDown(key))
          => ow_input_delay_timer' = ow_input_delay_timer]_vars

\* a move has just taken effect away from the first node, and a frame with
\* the key still held does nothing
C16_Witness ==
  /\ game_state = "overworld"
  /\ ~paused
  /\ running = "running"
  /\ current_node_on_map # 0
  /\ ow_input_delay_timer = OwInputCooldown
  /\ UpdateFrame(Game, {"RIGHT"}, SlowMs).current_node_on_map
       = current_node_on_map
  /\ UpdateFrame(Game, {"RIGHT"}, SlowMs).out = <<>>

\* ------------------------------------------------------------------------
\* C18: the pause key does nothing while the mode is game_over or victory
\* (no toggle, no cue); the pause overlay is on only in the modes overworld
\* and level, and while it is on the remembered mode is the current mode.
\* ------------------------------------------------------------------------
C18_PauseOverlay ==
  /\ game_state \in {"game_over", "victory"}
       => HandleKeyDown(Game, "P") = Game
  /\ paused => /\ game_state \in {"overworld", "level"}
               /\ paused_from_state = game_state

\* the game is over after a level, and P is pressed
C18_Witness ==
  /\ game_state = "game_over"
  /\ running = "running"
  /\ paused_from_state = "level"
  /\ ~HandleKeyDown(Game, "P").paused

\* ------------------------------------------------------------------------
\* C19: while the game is paused, a step that is not a press of the pause
\* key (a frame, or a press of Escape or Enter) changes neither the mode,
\* the score, the lives, the time left, the cursor, the player, the
\* enemies nor the coins.
\* ------------------------------------------------------------------------
C19_PausedFrozen ==
  [][(paused /\ ~KeyDown("P"))
       => UNCHANGED <<game_state, score, lives, time_left,
                      current_world_on_map, current_node_on_map,
                      player_rect, player_vel, active_enemies,
                      coin_rects>>]_vars

\* ------------------------------------------------------------------------
\* C20  (TickSpec)
\* ------------------------------------------------------------------------
\* the inserted rectangles held in a cell that the query rectangle q covers
CoveredEntries(cells, q) ==
  UNION {{cells[c][k] : k \in DOMAIN cells[c]} :
           c \in CellsOf(q) \cap DOMAIN cells}

\* C20: the grid's query, here with the player's rectangle as it is at any
\* moment of a level, returns no inserted rectangle twice, and returns both
\* of two different inserted rectangles that have the same bounds and lie
\* in a cell the query covers.
C20_QueryByIdentity ==
  game_state = "level" =>
    LET found == GridQuery(spatial_grid, player_rect)
        held == CoveredEntries(spatial_grid, player_rect)
    IN  /\ \A i, j \in DOMAIN found :
             found[i].id = found[j].id => i = j
        /\ \A a, b \in held :
             (a.id # b.id /\ a.rect = b.rect)
               => \E i, j \in DOMAIN found :
                    found[i].id = a.id /\ found[j].id = b.id

\* ------------------------------------------------------------------------
\* C21  (TickSpec)
\* ------------------------------------------------------------------------
\* the rectangles the level load inserted into the grid, in order
Inserted == platform_rects \o block_rects

ProbeShifts == {-(TILE * SCALE), 0, TILE * SCALE}

\* query rectangles: the player's rectangle and its neighbours, and the
\* enemies' rectangles
Probes ==
  {Rect(player_rect.x + dx, player_rect.y + dy, player_rect.w, player_rect.h) :
     dx \in ProbeShifts, dy \in ProbeShifts}
  \cup {active_enemies[k].rect : k \in DOMAIN active_enemies}

\* floor(a / CellSize)
CellIndex(a) == a \div CellSize

\* the query with q returns a rectangle with the bounds of r
Returns(q, r) ==
  \E i \in DOMAIN GridQuery(spatial_grid, q) :
    GridQuery(spatial_grid, q)[i].rect = r

\* C21: in a loaded level every inserted rectangle lies in the bucket of
\* every cell from floor(left/cell) to floor(right/cell) and from
\* floor(top/cell) to floor(bottom/cell); every query rectangle that
\* overlaps an inserted rectangle gets it back from the query (as Python's
\* "in" finds it: a rectangle with its bounds); and the query on the empty
\* grid and on the cleared grid returns nothing.
C21_GridComplete ==
  game_state = "level" =>
    /\ \A k \in DOMAIN Inserted :
         \A cx \in CellIndex(Inserted[k].x)..CellIndex(Right(Inserted[k])),
            cy \in CellIndex(Inserted[k].y)..CellIndex(Bottom(Inserted[k])) :
           /\ <<cx, cy>> \in DOMAIN spatial_grid
           /\ \E n \in DOMAIN spatial_grid[<<cx, cy>>] :
                spatial_grid[<<cx, cy>>][n] = [id |-> k, rect |-> Inserted[k]]
    /\ \A q \in Probes :
         /\ \A k \in DOMAIN Inserted :
              ColliderRect(q, Inserted[k]) => Returns(q, Inserted[k])
         /\ GridQuery(EmptyGrid, q) = <<>>
         /\ GridQuery(GridClear(spatial_grid), q) = <<>>

\* after a tick, a query rectangle overlaps an inserted rectangle away from
\* the cell of that rectangle's corner, and the query returns it
C21_Witness ==
  /\ game_state = "level"
  /\ LevelElapsed > 0
  /\ \E q \in Probes, k \in DOMAIN Inserted :
       /\ ColliderRect(q, Inserted[k])
       /\ CellIndex(q.x) > CellIndex(Inserted[k].x)
       /\ Returns(q, Inserted[k])

\* ---------------------------------------------------------------------------
\* A run of level 1-1 from a fresh load, frame by frame
\* ---------------------------------------------------------------------------

\* The keys held during a frame of the run, and the part of the run explored:
\* the player walks right, jumping over the first goomba and the koopa, steps
\* back, waits between StandFrom and StandTo for the enemies that have turned
\* at the left bound, and jumps again when they come in.
WalkUntil == 66
StepBackUntil == 75
JumpFrom == 205
RunLength == 256
StandFrom == 240
StandTo == 280

RunTicks == LevelElapsed \div FrameMs

RunKeys == {{}, {"SPACE"}, {"RIGHT"}, {"LEFT"}}

RunExplored(keys) ==
  /\ lives \in {StartLives, 1}
  /\ RunTicks < RunLength
  /\ keys = {"RIGHT"} => RunTicks < WalkUntil
  /\ keys = {"LEFT"} => (RunTicks >= WalkUntil /\ RunTicks < StepBackUntil)
  /\ keys = {"SPACE"} => (RunTicks < StepBackUntil \/ RunTicks > JumpFrom)
  /\ RunTicks >= StepBackUntil =>
       /\ Len(active_enemies) = Len(Level11.enemies)
       /\ player_rect.x > StandFrom
       /\ player_rect.x < StandTo

RunInit == Is(FirstLoad(<<0, 0>>))

\* lines 797-834: one iteration of the loop with no event in the queue
RunFrame(keys) ==
  /\ running = "running"
  /\ game_state = "level"
  /\ RunExplored(keys)
  /\ Becomes(UpdateFrame(Game, keys, FrameMs))

RunNext == \E keys \in RunKeys : RunFrame(keys)

RunSpec == RunInit /\ [][RunNext]_vars

\* ---------------------------------------------------------------------------
\* C22
\* ---------------------------------------------------------------------------

\* C22: no sequence of key inputs and ticks makes the frame loop abort with
\* an unhandled error: the loop is running or has been quit, never ended by
\* an exception such as the ValueError of list.remove (line 546) raised for a
\* stomped enemy that is no longer in the list after a reload in the same
\* tick.
C22_NeverAborts == running \in {"running", "quit"}

\* ---------------------------------------------------------------------------
\* A visit of level 1-1 played down to the last life
\* ---------------------------------------------------------------------------

\* The frames explored: Enter on the overworld; in the level a stall longer
\* than the time limit while more than one life is left; on the last life
\* idle stalls of WaitMs within WaitUntil of the reload, and then one long
\* stall with Right held.
WaitBase == 3000
WaitStep == 100
WaitCount == 60
WaitUntil == 6000
WaitMs == {WaitBase + WaitStep * k : k \in 0..WaitCount}

LastLifeDts == {SlowMs, DashMs, StallMs} \cup WaitMs

LastLifeExplored(keys, dt) ==
  IF game_state = "overworld"
  THEN <<keys, dt>> = <<{"RETURN"}, SlowMs>>
  ELSE /\ game_state = "level"
       /\ \/ /\ <<keys, dt>> = <<{}, StallMs>>
             /\ lives > 1
             /\ LevelElapsed = 0
          \/ /\ keys = {}
             /\ dt \in WaitMs
             /\ lives = 1
             /\ LevelElapsed < WaitUntil
          \/ /\ <<keys, dt>> = <<{"RIGHT"}, DashMs>>
             /\ lives = 1
             /\ LevelElapsed > WaitBase

\* lines 793-850: one iteration of the loop with no event in the queue
LastLifeFrame(keys, dt) ==
  /\ running = "running"
  /\ LastLifeExplored(keys, dt)
  /\ Becomes(UpdateFrame(Game, keys, dt))

LastLifeNext ==
  \E keys \in {{}, {"RETURN"}, {"RIGHT"}}, dt \in LastLifeDts :
    LastLifeFrame(keys, dt)

LastLifeSpec == Init /\ [][LastLifeNext]_vars

\* The run of level 1-1 on the last life: the level as it is reloaded after
\* the second death of a visit
LastLifeLoad ==
  [FirstLoad(<<0, 0>>) EXCEPT !.lives = 1,
                              !.ow_input_delay_timer = OwInputCooldown,
                              !.out = <<>>]
LastRunInit == Is(LastLifeLoad)
LastRunSpec == LastRunInit /\ [][RunNext]_vars

\* ---------------------------------------------------------------------------
\* C23
\* ---------------------------------------------------------------------------

\* C23: a level tick in which a death takes the lives from above 0 to 0 ends
\* in the mode game_over, whatever the rest of the tick does (a further
\* death, a coin, the goal); and the mode game_over is left only by a press
\* of Enter or Escape.
C23_GameOverKept ==
  [][/\ (game_state = "level" /\ lives > 0 /\ lives' <= 0)
          => game_state' = "game_over"
     /\ (game_state = "game_over" /\ game_state' # "game_over")
          => (KeyDown("RETURN") \/ KeyDown("ESCAPE"))]_vars

\* ---------------------------------------------------------------------------
\* C24  (TickSpec)
\* ---------------------------------------------------------------------------

\* the size-states of player_sizes other than small; the program itself
\* never grows the player, so they are entered here through
\* set_player_level_state
GrownStates == {"big", "fire"}

\* C24: in any moment of a level, a hurt of a big or fire player leaves a
\* small player with an invincibility window above 0 and the same lives,
\* and a hurt of a small player is a death: one life less.
C24_HurtStateMachine ==
  game_state = "level" =>
    /\ \A st \in GrownStates :
         LET g == SetPlayerLevelState(Game, st)
             u == HandlePlayerHurt(g)
         IN  /\ g.player_state = st
             /\ u.player_state = "small"
             /\ u.invincibility_timer > 0
             /\ u.lives = g.lives
             /\ u.game_state = "level"
    /\ player_state = "small" =>
         /\ HandlePlayerHurt(Game) = HandlePlayerDeath(Game)
         /\ HandlePlayerHurt(Game).lives = lives - 1

\* a small player about to be hurt by an enemy: the next ordinary frame
\* costs a life though time is left and the player is above the ground
C24_Witness ==
  /\ game_state = "level"
  /\ running = "running"
  /\ player_state = "small"
  /\ time_left > FrameMs
  /\ Bottom(player_rect) <= H - TILE * SCALE
  /\ UpdateFrame(Game, {}, FrameMs).lives = lives - 1

\* ---------------------------------------------------------------------------
\* C25
\* ---------------------------------------------------------------------------

\* lines 489-553: the tick up to the goal check
BeforeGoal(g, keys, dt) ==
  CollectCoins(UpdateEnemies(ScrollCamera(MovePlayer(ApplyInput(g, keys, dt))), dt))

\* the level tick with these inputs is one that comes to the goal check
\* and does not reach the goal
MissesGoal(keys, dt) ==
  /\ game_state = "level"
  /\ ~paused
  /\ running = "running"
  /\ current_level_spec # NoSpec
  /\ FrameExplored(keys, dt)
  /\ UpdateEnemies(ScrollCamera(MovePlayer(ApplyInput(Game, keys, dt))), dt).running
       = "running"
  /\ ~GoalReached(BeforeGoal(Game, keys, dt))

\* C25: in a level tick that does not reach the goal, lives are lost after
\* the goal check (a death is processed) when the time left after the
\* decrement is at or below 0, and when the player's top edge is below the
\* playfield, whatever happened with enemies and geometry before.
C25_DeathChecks ==
  \A keys \in KeyChoices, dt \in DtChoices :
    MissesGoal(keys, dt) =>
      LET b == BeforeGoal(Game, keys, dt)
          u == UpdateFrame(Game, keys, dt)
      IN  /\ b.time_left - dt <= 0 => u.lives < b.lives
          /\ b.player_rect.y > H => u.lives < b.lives

\* the player has fallen below the playfield with time left, and the next
\* ordinary frame costs a life
C25_Witness ==
  /\ MissesGoal({}, FrameMs)
  /\ BeforeGoal(Game, {}, FrameMs).player_rect.y > H
  /\ BeforeGoal(Game, {}, FrameMs).time_left > FrameMs
  /\ BeforeGoal(Game, {}, FrameMs).lives = lives
  /\ UpdateFrame(Game, {}, FrameMs).lives = lives - 1

\* ---------------------------------------------------------------------------
\* C26
\* ---------------------------------------------------------------------------

\* the rectangles some bucket of the grid refers to
Held(cells) ==
  UNION {{cells[c][k].rect : k \in DOMAIN cells[c]} : c \in DOMAIN cells}

\* the platform and block rectangles of a level definition
BuiltFrom(spec) ==
  {PlatformRect(spec.platforms[k]) : k \in DOMAIN spec.platforms}
    \cup {BlockRect(spec.blocks[k]) : k \in DOMAIN spec.blocks}

\* the grid cells holds the platforms and blocks of level id, each once in
\* a bucket, and none of the coins, the enemies or the goal
ExactGrid(cells, id, coins, enemies, goal) ==
  LET held == Held(cells)
  IN  /\ held = BuiltFrom(GameLevelSpecs(id))
      /\ \A c \in DOMAIN cells :
           Cardinality({cells[c][k].id : k \in DOMAIN cells[c]}) = Len(cells[c])
      /\ \A k \in DOMAIN coins : coins[k] \notin held
      /\ \A k \in DOMAIN enemies : enemies[k].rect \notin held
      /\ goal \notin held

\* levels loaded on top of whatever was loaded before
ReloadIds == {<<0, 0>>, <<0, 1>>, <<0, 4>>}

\* C26: in a level the grid holds exactly the platform and block
\* rectangles of that level, and a load of any level on top of what the
\* grid holds (in a level just loaded or after a level has ended; ticks
\* and the overworld do not touch the grid) leaves exactly that level's
\* platforms and blocks in it: nothing of the level before, no coin, no
\* enemy, no goal.
C26_GridExact ==
  /\ game_state = "level" =>
       ExactGrid(spatial_grid, current_level_spec, coin_rects, active_enemies,
                 goal_rect)
  /\ (game_state \in {"game_over", "victory"}
        \/ (game_state = "level" /\ time_left = LevelTime)) =>
       \A id \in ReloadIds :
         LET loaded == LoadLevelFromSpec(Game, id)
         IN ExactGrid(loaded.spatial_grid, id, loaded.coin_rects,
                      loaded.active_enemies, loaded.goal_rect)

\* level 1-1 is loaded, and a load of level 1-2 drops rectangles of 1-1
C26_Witness ==
  /\ game_state = "level"
  /\ time_left = LevelTime
  /\ lives < StartLives
  /\ current_level_spec = <<0, 0>>
  /\ Held(spatial_grid)
       \ Held(LoadLevelFromSpec(Game, <<0, 1>>).spatial_grid) # {}
  /\ Held(spatial_grid) # {}

\* ---------------------------------------------------------------------------
\* C27  (TickSpec)
\* ---------------------------------------------------------------------------

\* platform lists drawn for a level definition: none, one narrower than the
\* viewport, one as wide as the viewport, and two of which the first
\* reaches furthest
PlatformDraws ==
  { <<>>,
    << <<0, H - 32, W \div 2, 32>> >>,
    << <<0, H - 32, W, 32>> >>,
    << <<W \div 2, H - 32, W, 32>>, <<0, H - 32, W \div 2, 32>> >> }

\* level definitions: those of the levels explored, and level 1-1 with its
\* platforms replaced by a drawn list
DefinitionDraws ==
  {GameLevelSpecs(id) : id \in TickLevels}
    \cup {[Level11 EXCEPT !.platforms = p] : p \in PlatformDraws}

\* width is the largest right extent of the platforms, or W when that is
\* larger or there is no platform
WidthFits(width, platforms) ==
  /\ width >= W
  /\ \A k \in DOMAIN platforms : width >= platforms[k][1] + platforms[k][3]
  /\ \/ width = W
     \/ \E k \in DOMAIN platforms : width = platforms[k][1] + platforms[k][3]

\* C27: a load sets the level width to the largest right extent of the
\* definition's platforms and never below W, to W when the definition has
\* no platforms, and builds the blocks, coins, enemies and goal of the
\* definition in either case; the width of the level being played fits its
\* definition.
C27_LevelWidth ==
  /\ game_state = "level" =>
       WidthFits(level_width, GameLevelSpecs(current_level_spec).platforms)
  /\ time_left = LevelTime =>
       \A d \in DefinitionDraws :
         LET loaded == LoadSpec(Game, <<0, 0>>, d)
         IN  /\ WidthFits(loaded.level_width, d.platforms)
             /\ d.platforms = <<>> => loaded.level_width = W
             /\ loaded.block_rects
                  = [k \in DOMAIN d.blocks |-> BlockRect(d.blocks[k])]
             /\ loaded.coin_rects
                  = [k \in DOMAIN d.coins |-> CoinRect(d.coins[k])]
             /\ Len(loaded.active_enemies) = Len(d.enemies)
             /\ \A k \in DOMAIN d.enemies :
                  /\ loaded.active_enemies[k].rect.x = d.enemies[k][1]
                  /\ loaded.active_enemies[k].type = d.enemies[k][3]
             /\ loaded.goal_rect = GoalRect(d.goal)
             /\ loaded.game_state = "level"

\* a level wider than the viewport is being played, and loads of a
\* definition without platforms and of one narrower than the viewport give
\* the width W
C27_Witness ==
  /\ game_state = "level"
  /\ time_left = LevelTime
  /\ level_width > W
  /\ LoadSpec(Game, <<0, 0>>, [Level11 EXCEPT !.platforms = <<>>]).level_width = W
  /\ LoadSpec(Game, <<0, 0>>, [Level11 EXCEPT !.platforms = <<>>]).block_rects # <<>>
  /\ \E p \in PlatformDraws :
       /\ p # <<>>
       /\ p[1][1] + p[1][3] < W
       /\ LoadSpec(Game, <<0, 0>>, [Level11 EXCEPT !.platforms = p]).level_width = W

\* ---------------------------------------------------------------------------
\* The overworld on the whole map
\* ---------------------------------------------------------------------------

\* ordinary frames explored in a level entered from the map
PatrolTicks == 40

\* the keys held during a frame on the overworld
MapKeys == {{}, {"RIGHT"}, {"LEFT"}, {"UP"}, {"DOWN"}, {"RETURN"}}

\* lines 829-831: a frame on the overworld, the map being SMW_STYLE_MAP_DATA
\* with all its worlds and nodes; an idle frame only while the input timer
\* still runs
MapFrame(keys, dt) ==
  /\ running = "running"
  /\ game_state = "overworld"
  /\ ~paused
  /\ keys = {} => ow_input_delay_timer > 0
  /\ Becomes(UpdateOverworldOn(Game, keys, dt, NodesInData))

\* lines 832-835: an ordinary frame with no key held in the level entered
MapLevelFrame ==
  /\ running = "running"
  /\ game_state = "level"
  /\ ~paused
  /\ LevelElapsed < PatrolTicks * FrameMs
  /\ Becomes(UpdateFrame(Game, {}, FrameMs))

MapNext ==
  \/ \E keys \in MapKeys, dt \in {SlowMs, LagMs} : MapFrame(keys, dt)
  \/ MapLevelFrame

MapSpec == Init /\ [][MapNext]_vars

\* ---------------------------------------------------------------------------
\* C28  (MapSpec)
\* ---------------------------------------------------------------------------

\* the world after w and the world before it, the last world being followed
\* by the first
AdjacentWorlds(w) ==
  {(w + 1) % NumWorldsInData, (w - 1 + NumWorldsInData) % NumWorldsInData}

\* C28: on the overworld the node cursor is an index into the node list of
\* the current world, whatever moves and world changes came before; and a
\* step that changes the world goes to an adjacent world and puts the node
\* cursor on 0.
C28_NodeCursor ==
  /\ [](/\ current_world_on_map \in 0..(NumWorldsInData - 1)
        /\ current_node_on_map \in 0..(NodesInData[current_world_on_map + 1] - 1))
  /\ [][current_world_on_map' # current_world_on_map
          => /\ current_world_on_map' \in AdjacentWorlds(current_world_on_map)
             /\ current_node_on_map' = 0]_vars

\* the cursor is on the last node of an eight-node world, the worlds next to
\* it have six nodes, and a world change is accepted
C28_Witness ==
  /\ game_state = "overworld"
  /\ current_node_on_map = NodesInData[current_world_on_map + 1] - 1
  /\ \A w \in AdjacentWorlds(current_world_on_map) :
       NodesInData[w + 1] <= current_node_on_map
  /\ ow_input_delay_timer <= SlowMs
  /\ UpdateOverworldOn(Game, {"UP"}, SlowMs, NodesInData).current_node_on_map = 0
  /\ UpdateOverworldOn(Game, {"UP"}, SlowMs, NodesInData).current_world_on_map
       # current_world_on_map

\* ---------------------------------------------------------------------------
\* C29  (MapSpec)
\* ---------------------------------------------------------------------------

\* rectangle r has crossed the left or the right bound of the level
OutOfBounds(r) == r.x < 0 \/ Right(r) > level_width

\* rectangle r has run into a platform or block
InGeometry(r) ==
  \/ \E k \in DOMAIN platform_rects : ColliderRect(r, platform_rects[k])
  \/ \E k \in DOMAIN block_rects : ColliderRect(r, block_rects[k])

\* C29: over a level tick that neither reloads the level nor removes an
\* enemy, an enemy that walks before and after has the same speed, and has
\* reversed its direction if the tick took it across a bound of the level
\* or into a platform or block.
C29_Patrol ==
  [][(/\ game_state = "level"
      /\ game_state' = "level"
      /\ time_left' = time_left - FrameMs
      /\ Len(active_enemies') = Len(active_enemies))
       => \A k \in DOMAIN active_enemies :
            (active_enemies[k].state = "walking"
               /\ active_enemies'[k].state = "walking")
              => /\ Abs(active_enemies'[k].vel_x) = Abs(active_enemies[k].vel_x)
                 /\ OutOfBounds(active_enemies'[k].rect)
                      => active_enemies'[k].vel_x = -active_enemies[k].vel_x
                 /\ (InGeometry(active_enemies'[k].rect)
                       /\ ~InGeometry(active_enemies[k].rect))
                      => active_enemies'[k].vel_x = -active_enemies[k].vel_x]_vars

\* ---------------------------------------------------------------------------
\* C30  (MusicSpec)
\* ---------------------------------------------------------------------------

\* C30: a step of the music thread changes nothing of the tkinter program's
\* state (mode, score, lives, velocity, keys and the rest) and is decided by
\* where the thread stands and the flag play_music alone; a step of the main
\* loop does not move the thread; once play_music is false the thread starts
\* no pass over the theme; and from then on it comes to its end.
C30_MusicThread ==
  /\ [][/\ music' # music
             => /\ clone' = clone
                /\ \/ music' = background_music(music, clone.play_music)
                   \/ clone.destroyed /\ music'.pc = "done"
        /\ clone' # clone => music' = music
        /\ ~clone.play_music => ~(music.pc = "while" /\ music'.pc = "for")
        /\ ~clone.play_music => ~clone'.play_music]_vars
  /\ (~clone.play_music) ~> (music.pc = "done")

\* the main loop has quit in the middle of a pass: the flag is false and the
\* thread stands before a note
C30_Witness ==
  /\ ~clone.play_music
  /\ clone.destroyed
  /\ music.pc = "for"
  /\ music.note > 1

\* ---------------------------------------------------------------------------
\* C31  (CloneSpec)
\* ---------------------------------------------------------------------------

\* the callbacks of game_over that are pending
ReturnsPending ==
  {i \in DOMAIN clone.after : clone.after[i].cb = "return_to_overworld"}

\* C31: game over is triggered once: lives never goes below 0, at most one
\* return to the overworld is pending at a time, and the game leaves a level
\* for the overworld only by the return that follows lives = 0, never by a
\* callback left over from before.
C31_GameOverOnce ==
  /\ [](clone.lives >= 0 /\ Cardinality(ReturnsPending) <= 1)
  /\ [][(clone.state = "level" /\ clone'.state = "overworld")
          => clone.lives <= 0]_vars

\* ---------------------------------------------------------------------------
\* C32  (MarioSpec)
\* ---------------------------------------------------------------------------

\* C32: in MarioGame with an overworld exactly one timer callback is pending
\* at every moment: update_overworld on the overworld, and in a level either
\* update_level or, after the enemy was touched, the delayed start_overworld;
\* and while that start_overworld is pending the key bindings are removed
\* and no key is registered.
C32_OneLoop ==
  /\ Len(mario.after) = 1
  /\ mario.state = "overworld" => mario.after[1].cb = "update_overworld"
  /\ mario.state = "level"
       => mario.after[1].cb \in {"update_level", "start_overworld"}
  /\ mario.after[1].cb = "start_overworld"
       => (mario.keys = {} /\ ~mario.bound)

\* the enemy was touched in a later visit of a level, after a coin was
\* collected, and the overworld has not restarted yet
C32_Witness ==
  /\ mario.state = "level"
  /\ mario.after[1].cb = "start_overworld"
  /\ mario.score >= 1
  /\ mario.current_level = 2

\* ---------------------------------------------------------------------------
\* C33  (LastRunSpec)
\* ---------------------------------------------------------------------------

\* C33: a level tick takes at most one life, whatever happens in it: several
\* enemies on the player, or an enemy contact together with a time-out or a
\* fall.
C33_OneLifePerTick ==
  [][game_state = "level" => lives' >= lives - 1]_vars

\* ---------------------------------------------------------------------------
\* C34  (TickSpec)
\* ---------------------------------------------------------------------------

\* the rectangle p stands on the top edge of r
OnTopOf(p, r) == Bottom(p) = r.y /\ p.x < Right(r) /\ r.x < Right(p)

\* the tick's input step sets the jump velocity
JumpApplied(keys, dt) ==
  ApplyInput(Game, keys, dt).player_vel.y = JUMP_VEL + GRAVITY

\* C34: no jump in mid-air.  A level tick applies the jump velocity only if
\* on_ground is true when the tick begins, on_ground becomes true only in a
\* level tick, and a tick ends in the level with on_ground true only if its
\* vertical pass set it, having put the player's bottom on the top of a
\* platform or block that the downward move had entered, where the player
\* stays until the tick ends.
C34_NoMidAirJump ==
  /\ [](game_state = "level" /\ ~paused
          => \A keys \in KeyChoices, dt \in TickDts :
               LET m == AfterVerticalMove(keys, dt)
                   v == AfterVerticalPass(keys, dt)
                   u == UpdateFrame(Game, keys, dt)
               IN  /\ JumpApplied(keys, dt) => player_on_ground
                   /\ (u.game_state = "level" /\ u.player_on_ground)
                        => /\ v.player_on_ground
                           /\ u.player_rect = v.player_rect
                           /\ \E r \in Penetrated(m) :
                                OnTopOf(v.player_rect, r))
  /\ [][(~player_on_ground /\ player_on_ground')
          => (game_state = "level" /\ ~paused)]_vars

\* the player stands on a block above the ground after a tick that landed
\* there, and the jump key takes effect in the next tick
C34_Witness ==
  /\ game_state = "level"
  /\ player_on_ground
  /\ time_left < LevelTime
  /\ \E k \in DOMAIN block_rects : OnTopOf(player_rect, block_rects[k])
  /\ JumpApplied({"SPACE"}, FrameMs)

\* ---------------------------------------------------------------------------
\* C35  (Spec)
\* ---------------------------------------------------------------------------

\* the player is at rest on the top of a platform with on_ground true
AtRest ==
  /\ game_state = "level"
  /\ ~paused
  /\ player_on_ground
  /\ player_vel.y = 0
  /\ \E k \in DOMAIN platform_rects : OnTopOf(player_rect, platform_rects[k])

\* C35: a player standing still on a platform is on the ground at the end
\* of the next tick too: after an idle tick of an ordinary frame that stays
\* in the level and reloads nothing, on_ground is true and a tick with the
\* jump key then applies the jump velocity.
C35_GroundedEveryTick ==
  AtRest
    => LET u == UpdateFrame(Game, {}, FrameMs)
       IN  (u.game_state = "level" /\ u.time_left = time_left - FrameMs)
             => /\ u.player_on_ground
                /\ ApplyInput(u, {"SPACE"}, FrameMs).player_vel.y
                     = JUMP_VEL + GRAVITY

\* ---------------------------------------------------------------------------
\* C36  (TickSpec)
\* ---------------------------------------------------------------------------

\* player positions from far left of the level to far right of it
CameraDraws(width) ==
  {-W, -1, 0, W \div 2, width - (W \div 2), width - 1, width, width + W}

CameraInRange(offset, width) == offset >= 0 /\ offset <= width - W

\* C36: in a level the camera offset lies in [0, level_width - W]: in every
\* state a tick or a load leaves, and after the camera step for a player
\* put anywhere from left of 0 to right of the level width.
C36_CameraClamped ==
  game_state = "level"
    => /\ CameraInRange(camera_offset_x, level_width)
       /\ \A x \in CameraDraws(level_width) :
            CameraInRange(
              ScrollCamera([Game EXCEPT !.player_rect.x = x]).camera_offset_x,
              level_width)

\* a tick has carried the player past the right end of a level wider than
\* the screen, and the camera rests at level_width - W
C36_Witness ==
  /\ game_state = "level"
  /\ time_left < LevelTime
  /\ level_width > W
  /\ Right(player_rect) > level_width
  /\ camera_offset_x = level_width - W

\* ---------------------------------------------------------------------------
\* C37  (Mario3Spec)
\* ---------------------------------------------------------------------------

\* C37: in the three-level MarioGame the score equals current_level, which
\* is at most 3; setup_level is only ever called with an index in 0..2 and
\* never fails; and "You Win!" is drawn once, with the third coin: it is
\* there exactly when the score is 3.
C37_ThreeLevels ==
  /\ mario3.score = mario3.current_level
  /\ mario3.current_level <= 3
  /\ mario3.index \in 0..2
  /\ ~mario3.failed
  /\ Count(mario3.texts, "You Win!") = IF mario3.score = 3 THEN 1 ELSE 0

\* the third coin has been collected and the update loop has gone on
\* afterwards with the keys unbound: the walk that took the coin has stopped
C37_Witness ==
  /\ mario3.score = 3
  /\ mario3.texts = <<"You Win!">>
  /\ ~mario3.bound
  /\ ~mario3.coin_held
  /\ mario3.player_vel = <<0, 0>>
  /\ mario3.after # <<>>

\* C38: in Space Invaders Lite the score plus the number of enemies left is
\* always 24 (3 rows of 8), and in a pass of the running loop, whatever the
\* events and keys, the enemies destroyed are as many as the bullets the hits took
\* out of play, the score grows by that number, and no bullet left in play
\* overlaps an enemy that is left: a bullet destroys at most one enemy and
\* is gone in the pass in which it hits.
C38_ScoreCountsEnemies ==
  /\ invaders.score + Len(invaders.enemies) = ENEMY_ROWS * ENEMY_COLS
  /\ (invaders.run /\ invaders.state = "playing") =>
       \A events \in InvaderEvents, keys \in InvaderKeys :
         LET d == BeforeHits(Inputs(invaders, events, keys))
             u == MainLoop(invaders, events, keys)
             kills == Len(d.enemies) - Len(u.enemies)
         IN  /\ kills = Len(d.bullets) - Len(u.bullets)
             /\ u.score = invaders.score + kills
             /\ \A i \in DOMAIN u.bullets, k \in DOMAIN u.enemies :
                  ~ColliderRect(u.bullets[i], u.enemies[k])

\* a pass in which the only bullet hit: it is gone and the score stands at
\* two or more; and the pass after the double shot hit, with the twin bullet
\* still in flight
C38_Witness ==
  /\ invaders.state = "playing"
  /\ Count(invaders.out, "hit_sound") = 1
  /\ \/ invaders.bullets = <<>> /\ invaders.score >= 2
     \/ Len(invaders.bullets) = 1 /\ invaders.score = 1

\* the game of Space Invaders Lite: what the end states freeze
InvadersGame(s) ==
  <<s.state, s.score, s.player, s.bullets, s.enemies>>
Over(s) == s.state \in {"win", "game_over"}

\* C39: a pass of the loop makes the state win only if it leaves no enemy,
\* and game_over only if it leaves an enemy whose bottom is at or below the
\* window height; no pass enters both (it plays at most one of the win and
\* lose sounds); and once the state is win or game_over no events and no
\* keys change the state, the score, the player, the bullets or the enemies.
C39_EndStatesFinal ==
  /\ [](Over(invaders) =>
          \A events \in InvaderEvents, keys \in InvaderKeys :
            InvadersGame(MainLoop(invaders, events, keys))
              = InvadersGame(invaders))
  /\ [][/\ (~Over(invaders) /\ invaders'.state = "win") =>
             /\ invaders'.enemies = <<>>
             /\ Count(invaders'.out, "lose_sound") = 0
        /\ (~Over(invaders) /\ invaders'.state = "game_over") =>
             /\ \E k \in DOMAIN invaders'.enemies :
                  Bottom(invaders'.enemies[k]) >= HEIGHT
             /\ Count(invaders'.out, "win_sound") = 0
        /\ Count(invaders'.out, "win_sound")
             + Count(invaders'.out, "lose_sound")
             = IF ~Over(invaders) /\ Over(invaders') THEN 1 ELSE 0
        /\ Over(invaders) => InvadersGame(invaders') = InvadersGame(invaders)
       ]_vars

\* the enemies have reached the bottom, and a further pass has run in
\* game_over with the loop still running
C39_Witness ==
  /\ invaders.state = "game_over"
  /\ invaders.run
  /\ invaders.out = <<>>
  /\ invaders.score = 0
  /\ \E k \in DOMAIN invaders.enemies : Bottom(invaders.enemies[k]) >= HEIGHT
====
